---- MODULE Spec2Model ----
(***************************************************************************)
(* A model of osc8wrap's streaming transformation engine: the incremental  *)
(* ANSI tokenizer (ansi_tokenizer.go) and the OSC 8 rewriter (linker.go).  *)
(* Bytes are integers 0..255; a byte string is a sequence of bytes.        *)
(***************************************************************************)
EXTENDS Integers, Sequences, FiniteSets, TLC

VARIABLES
    tk,        \* the AnsiTokenizer under test (buf, state, prevState, sgr, inOSC8)
    pre,       \* the tokenizer as it was before the last Feed/Flush call
    fed,       \* concatenation of every Feed input so far
    emitted,   \* every token returned so far, in emission order
    lastOut,   \* the tokens returned by the last call
    lastOp,    \* "init", "feed" or "flush"
    nops,      \* number of calls made
    nflush,    \* number of Flush calls made
    lk,        \* the Linker (options, fileCache, styled, inOSC8); its tokenizer is tk
    sink,      \* what the Linker has written to its output, as pieces [d, ins]
    fs,        \* the regular files that exist
    idx,       \* the Linker's FileIndex
    links,     \* the hyperlinks the last Write emitted
    fi,        \* FileIndex.Start and its watcher as a process, with its surroundings
    wk,        \* a symwalk.WalkDir call in progress
    pt,        \* run in PTY mode: the wrapper, its child and its exit code
    cut,       \* the lengths of the Write inputs so far, where they are compared
    rp         \* a ReplayWrites call in progress

tokVars == <<tk, pre, fed, emitted, lastOut, lastOp, nops, nflush>>
linkVars == <<lk, sink, fs, idx, links>>
procVars == <<fi, wk, pt, cut, rp>>

\* fi, wk, pt and rp in the specifications that do not run the process
Idle == [pc |-> "off"]
vars == <<tk, pre, fed, emitted, lastOut, lastOp, nops, nflush, lk, sink, fs, idx, links, fi, wk, pt, cut, rp>>

(***************************************************************************)
(* Byte values named in the source.                                        *)
(***************************************************************************)
escByte == 27
belByte == 7
maxBufferSize == 4096

chLBracket == 91
chRBracket == 93
chP == 80
chUnderscore == 95
chCaret == 94
chBackslash == 92
chSemi == 59
chM == 109
chX == 120
chZero == 48
chNine == 57

\* the attribute bits of sgrState.attrs, kept as a set of bit values
attrBold == 1
attrFaint == 2
attrItalic == 4
attrUnderline == 8
attrBlinkSlow == 16
attrBlinkRapid == 32
attrInverse == 64
attrConceal == 128
attrStrikethrough == 256

TokenKinds == {"Text", "SGR", "CSI", "OSC8", "OSC", "DCS", "Other", "ESC"}
States == {"Ground", "Esc", "CSI", "OSC", "STCandidate", "DCS"}

Tail2(s) == SubSeq(s, 3, Len(s))

(***************************************************************************)
(* sgrState                                                                *)
(***************************************************************************)
sgrStyled(s) == s.fgActive \/ s.bgActive \/ s.attrs # {}

sgrReset(s) == [fgActive |-> FALSE, bgActive |-> FALSE, attrs |-> {}]

\* parseNumber: decimal value of the digits of s, other bytes ignored
\* (the loop over s[lo..hi] runs left to right, split in halves to bound the
\* evaluation depth)
RECURSIVE parseNumberRange(_, _, _, _)
parseNumberRange(s, lo, hi, n) ==
    IF lo > hi THEN n
    ELSE IF lo = hi
         THEN IF s[lo] >= chZero /\ s[lo] <= chNine THEN n * 10 + (s[lo] - chZero) ELSE n
    ELSE LET mid == (lo + hi) \div 2
             left == parseNumberRange(s, lo, mid, n)
         IN IF left >= 0 THEN parseNumberRange(s, mid + 1, hi, left) ELSE n

parseNumber(s) == parseNumberRange(s, 1, Len(s), 0)

\* parseCSIParams: split on ';', an empty field is 0.  The loop runs i over
\* 0..len(params); c is [start, codes]; positions are 1-based here.
parseCSIParamsAt(params, i, c) ==
    IF i = Len(params) + 1 \/ params[i] = chSemi
    THEN [start |-> i + 1,
          codes |-> Append(c.codes, IF i > c.start
                                    THEN parseNumber(SubSeq(params, c.start, i - 1))
                                    ELSE 0)]
    ELSE c

RECURSIVE parseCSIParamsRange(_, _, _, _)
parseCSIParamsRange(params, lo, hi, c) ==
    IF lo > hi THEN c
    ELSE IF lo = hi THEN parseCSIParamsAt(params, lo, c)
    ELSE LET mid == (lo + hi) \div 2
             left == parseCSIParamsRange(params, lo, mid, c)
         IN IF left.start >= 1 THEN parseCSIParamsRange(params, mid + 1, hi, left) ELSE c

parseCSIParams(params) ==
    parseCSIParamsRange(params, 1, Len(params) + 1, [start |-> 1, codes |-> <<>>]).codes

\* mutant of skipExtendedColor: the operands of 38 and 48 are not skipped
skipExtendedColorNone(codes, start) == 0

\* skipExtendedColor(codes, start): start is the 1-based index of the code after 38/48
skipExtendedColor(codes, start) ==
    IF start > Len(codes) THEN 0
    ELSE IF codes[start] = 5 THEN 2
    ELSE IF codes[start] = 2 THEN 4
    ELSE 0

applyCode(code, st) ==
    CASE code = 0 -> sgrReset(st)
      [] code = 1 -> [st EXCEPT !.attrs = @ \cup {attrBold}]
      [] code = 2 -> [st EXCEPT !.attrs = @ \cup {attrFaint}]
      [] code = 3 -> [st EXCEPT !.attrs = @ \cup {attrItalic}]
      [] code = 4 -> [st EXCEPT !.attrs = @ \cup {attrUnderline}]
      [] code = 5 -> [st EXCEPT !.attrs = @ \cup {attrBlinkSlow}]
      [] code = 6 -> [st EXCEPT !.attrs = @ \cup {attrBlinkRapid}]
      [] code = 7 -> [st EXCEPT !.attrs = @ \cup {attrInverse}]
      [] code = 8 -> [st EXCEPT !.attrs = @ \cup {attrConceal}]
      [] code = 9 -> [st EXCEPT !.attrs = @ \cup {attrStrikethrough}]
      [] code = 22 -> [st EXCEPT !.attrs = @ \ {attrBold, attrFaint}]
      [] code = 23 -> [st EXCEPT !.attrs = @ \ {attrItalic}]
      [] code = 24 -> [st EXCEPT !.attrs = @ \ {attrUnderline}]
      [] code = 25 -> [st EXCEPT !.attrs = @ \ {attrBlinkSlow, attrBlinkRapid}]
      [] code = 27 -> [st EXCEPT !.attrs = @ \ {attrInverse}]
      [] code = 28 -> [st EXCEPT !.attrs = @ \ {attrConceal}]
      [] code = 29 -> [st EXCEPT !.attrs = @ \ {attrStrikethrough}]
      [] code = 39 -> [st EXCEPT !.fgActive = FALSE]
      [] code = 49 -> [st EXCEPT !.bgActive = FALSE]
      [] (code >= 30 /\ code <= 37) \/ (code >= 90 /\ code <= 97) \/ code = 38 ->
            [st EXCEPT !.fgActive = TRUE]
      [] (code >= 40 /\ code <= 47) \/ (code >= 100 /\ code <= 107) \/ code = 48 ->
            [st EXCEPT !.bgActive = TRUE]
      [] OTHER -> st

RECURSIVE applyCodesFrom(_, _, _)
applyCodesFrom(codes, i, st) ==
    IF i > Len(codes) THEN st
    ELSE LET code == codes[i]
             skip == IF code = 38 \/ code = 48
                     THEN skipExtendedColor(codes, i + 1) ELSE 0
         IN applyCodesFrom(codes, i + skip + 1, applyCode(code, st))

\* applySGRParams(params, st): the sgrState after the sequence's parameters
applySGRParams(params, st) ==
    IF Len(params) = 0 THEN sgrReset(st)
    ELSE applyCodesFrom(parseCSIParams(params), 1, st)

(***************************************************************************)
(* OSC 8 detection                                                         *)
(***************************************************************************)
\* mutant of extractOSCData: a leading ';' stays in the payload
extractOSCDataKeepSemi(data) ==
    IF Len(data) < 2 THEN <<>>
    ELSE LET n == Len(data)
             end == IF n > 0 /\ data[n] = belByte THEN n - 1
                    ELSE IF n >= 2 /\ data[n - 1] = escByte /\ data[n] = chBackslash
                         THEN n - 2
                         ELSE n
         IN IF 2 >= end THEN <<>> ELSE SubSeq(data, 3, end)

\* extractOSCData: the payload between ESC ] (and one optional ';') and the
\* terminator; <<>> stands for nil
extractOSCData(data) ==
    IF Len(data) < 2 THEN <<>>
    ELSE LET start == IF Len(data) > 2 /\ data[3] = chSemi THEN 3 ELSE 2
             n == Len(data)
             end == IF n > 0 /\ data[n] = belByte THEN n - 1
                    ELSE IF n >= 2 /\ data[n - 1] = escByte /\ data[n] = chBackslash
                         THEN n - 2
                         ELSE n
         IN IF start >= end THEN <<>> ELSE SubSeq(data, start + 1, end)

\* index of the first ';' of s at or after i, 0 when there is none
RECURSIVE indexSemi(_, _)
indexSemi(s, i) ==
    IF i > Len(s) THEN 0 ELSE IF s[i] = chSemi THEN i ELSE indexSemi(s, i + 1)

\* parseOSC8: [ok, isEnd]
parseOSC8(data) ==
    IF ~(Len(data) >= 2 /\ data[1] = 56 /\ data[2] = chSemi)
    THEN [ok |-> FALSE, isEnd |-> FALSE]
    ELSE LET second == indexSemi(data, 3)
         IN IF second = 0 THEN [ok |-> FALSE, isEnd |-> FALSE]
            ELSE [ok |-> TRUE, isEnd |-> second = Len(data)]

(***************************************************************************)
(* AnsiTokenizer                                                           *)
(***************************************************************************)
NewAnsiTokenizer ==
    [buf |-> <<>>, state |-> "Ground", prevState |-> "Ground",
     sgr |-> [fgActive |-> FALSE, bgActive |-> FALSE, attrs |-> {}],
     inOSC8 |-> FALSE]

Token(kind, data) == [Kind |-> kind, Data |-> data, Styled |-> FALSE, IsEnd |-> FALSE]

isCSIFinalByte(b) == b >= 64 /\ b <= 126
isCSIParamByte(b) == b >= 48 /\ b <= 63
isCSIIntermediateByte(b) == b >= 32 /\ b <= 47

\* mutant of emitCSI: the parameters of every CSI are applied to the SGR state,
\* whatever its final byte
emitCSIAnyFinal(t) ==
    LET data == t.buf
        sgr2 == applySGRParams(SubSeq(data, 3, Len(data) - 1), t.sgr)
    IN IF Len(data) >= 3 /\ data[Len(data)] = chM
       THEN [t |-> [t EXCEPT !.sgr = sgr2],
             tok |-> [Kind |-> "SGR", Data |-> data,
                      Styled |-> sgrStyled(sgr2), IsEnd |-> FALSE]]
       ELSE [t |-> [t EXCEPT !.sgr = sgr2], tok |-> Token("CSI", data)]

\* emitCSI: [t, tok], the tokenizer (sgr updated for an SGR) and the token
emitCSI(t) ==
    LET data == t.buf
    IN IF Len(data) >= 3 /\ data[Len(data)] = chM
       THEN LET sgr2 == applySGRParams(SubSeq(data, 3, Len(data) - 1), t.sgr)
            IN [t |-> [t EXCEPT !.sgr = sgr2],
                tok |-> [Kind |-> "SGR", Data |-> data,
                         Styled |-> sgrStyled(sgr2), IsEnd |-> FALSE]]
       ELSE [t |-> t, tok |-> Token("CSI", data)]

\* emitOSC: [t, tok], the tokenizer (inOSC8 updated for an OSC 8) and the token
emitOSC(t) ==
    LET data == t.buf
        r == parseOSC8(extractOSCData(data))
    IN IF r.ok
       THEN [t |-> [t EXCEPT !.inOSC8 = ~r.isEnd],
             tok |-> [Kind |-> "OSC8", Data |-> data, Styled |-> FALSE, IsEnd |-> r.isEnd]]
       ELSE [t |-> t, tok |-> Token("OSC", data)]

\* a token is emitted, the buffer emptied and the state set to Ground
Emit(t, tokens, tok) ==
    [t |-> [t EXCEPT !.buf = <<>>, !.state = "Ground"], tokens |-> Append(tokens, tok)]

\* the switch of Feed's loop body for one byte b; a is [t, tokens]
FeedSwitch(a, b) ==
    LET t == a.t
        tb == [t EXCEPT !.buf = Append(@, b)]
    IN CASE t.state = "Ground" ->
              IF b = escByte
              THEN [t |-> [t EXCEPT !.buf = <<b>>, !.state = "Esc"],
                    tokens |-> IF Len(t.buf) > 0
                               THEN Append(a.tokens, Token("Text", t.buf))
                               ELSE a.tokens]
              ELSE [t |-> tb, tokens |-> a.tokens]
         [] t.state = "Esc" ->
              IF b = chLBracket THEN [t |-> [tb EXCEPT !.state = "CSI"], tokens |-> a.tokens]
              ELSE IF b = chRBracket THEN [t |-> [tb EXCEPT !.state = "OSC"], tokens |-> a.tokens]
              ELSE IF b \in {chP, chUnderscore, chCaret}
                   THEN [t |-> [tb EXCEPT !.state = "DCS"], tokens |-> a.tokens]
              ELSE Emit(tb, a.tokens, Token("ESC", tb.buf))
         [] t.state = "CSI" ->
              IF isCSIFinalByte(b)
              THEN LET e == emitCSI(tb) IN Emit(e.t, a.tokens, e.tok)
              ELSE IF ~isCSIParamByte(b) /\ ~isCSIIntermediateByte(b)
                   THEN Emit(tb, a.tokens, Token("CSI", tb.buf))
                   ELSE [t |-> tb, tokens |-> a.tokens]
         [] t.state = "OSC" ->
              IF b = belByte
              THEN LET e == emitOSC(tb) IN Emit(e.t, a.tokens, e.tok)
              ELSE IF b = escByte
                   THEN [t |-> [tb EXCEPT !.prevState = "OSC", !.state = "STCandidate"],
                         tokens |-> a.tokens]
                   ELSE [t |-> tb, tokens |-> a.tokens]
         [] t.state = "STCandidate" ->
              IF b = chBackslash
              THEN IF t.prevState = "DCS"
                   THEN Emit(tb, a.tokens, Token("DCS", tb.buf))
                   ELSE LET e == emitOSC(tb) IN Emit(e.t, a.tokens, e.tok)
              ELSE [t |-> [tb EXCEPT !.state = t.prevState], tokens |-> a.tokens]
         [] t.state = "DCS" ->
              IF b = escByte
              THEN [t |-> [tb EXCEPT !.prevState = "DCS", !.state = "STCandidate"],
                    tokens |-> a.tokens]
              ELSE [t |-> tb, tokens |-> a.tokens]

\* mutants of the overflow clamp: the overflowing bytes are discarded instead
\* of emitted; the limit is taken one byte too high
FeedClampDrop(a) ==
    IF Len(a.t.buf) > maxBufferSize
    THEN [t |-> [a.t EXCEPT !.buf = <<>>, !.state = "Ground"], tokens |-> a.tokens]
    ELSE a

FeedClampLate(a) ==
    IF Len(a.t.buf) > maxBufferSize + 1
    THEN IF a.t.state = "Ground"
         THEN [t |-> [a.t EXCEPT !.buf = <<>>],
               tokens |-> Append(a.tokens, Token("Text", a.t.buf))]
         ELSE [t |-> [a.t EXCEPT !.buf = <<>>, !.state = "Ground"],
               tokens |-> Append(a.tokens, Token("Other", a.t.buf))]
    ELSE a

\* mutant of the overflow clamp: whatever overflows is emitted as Text
FeedClampText(a) ==
    IF Len(a.t.buf) > maxBufferSize
    THEN Emit(a.t, a.tokens, Token("Text", a.t.buf))
    ELSE a

\* the overflow clamp at the end of Feed's loop body
FeedClamp(a) ==
    IF Len(a.t.buf) > maxBufferSize
    THEN IF a.t.state = "Ground"
         THEN Emit(a.t, a.tokens, Token("Text", a.t.buf))
         ELSE Emit(a.t, a.tokens, Token("Other", a.t.buf))
    ELSE a

FeedByte(a, b) == FeedClamp(FeedSwitch(a, b))

\* Feed's loop over p[lo..hi], left to right (split in halves to bound the
\* evaluation depth; the left half is completed before the right one starts)
RECURSIVE FeedRange(_, _, _, _)
FeedRange(a, p, lo, hi) ==
    IF lo > hi THEN a
    ELSE IF lo = hi THEN FeedByte(a, p[lo])
    ELSE LET mid == (lo + hi) \div 2
             left == FeedRange(a, p, lo, mid)
         IN IF left.t.state \in States THEN FeedRange(left, p, mid + 1, hi) ELSE a

\* mutant of Feed: each call stands alone, an unfinished sequence is emitted
\* as a Text token at the end of the call instead of being carried over
FeedStandalone(t, p) ==
    LET a == FeedRange([t |-> t, tokens |-> <<>>], p, 1, Len(p))
    IN IF Len(a.t.buf) > 0
       THEN [t |-> [a.t EXCEPT !.buf = <<>>, !.state = "Ground"],
             tokens |-> Append(a.tokens, Token("Text", a.t.buf))]
       ELSE a

\* mutant of Feed: plain text left in the accumulator at the end of the call
\* stays there until the next call
FeedHoldText(t, p) == FeedRange([t |-> t, tokens |-> <<>>], p, 1, Len(p))

\* Feed(p) on tokenizer t: [t, tokens]
Feed(t, p) ==
    LET a == FeedRange([t |-> t, tokens |-> <<>>], p, 1, Len(p))
    IN IF a.t.state = "Ground" /\ Len(a.t.buf) > 0
       THEN Emit(a.t, a.tokens, Token("Text", a.t.buf))
       ELSE a

\* mutant of inferIncompleteKind: the DCS/APC/PM introducers are forgotten
inferIncompleteKindNoDCS(t) ==
    IF Len(t.buf) = 0 THEN "Text"
    ELSE IF t.buf[1] # escByte THEN "Text"
    ELSE IF Len(t.buf) = 1 THEN "ESC"
    ELSE IF t.buf[2] = chLBracket THEN "CSI"
    ELSE IF t.buf[2] = chRBracket THEN "OSC"
    ELSE "ESC"

inferIncompleteKind(t) ==
    IF Len(t.buf) = 0 THEN "Text"
    ELSE IF t.buf[1] # escByte THEN "Text"
    ELSE IF Len(t.buf) = 1 THEN "ESC"
    ELSE IF t.buf[2] = chLBracket THEN "CSI"
    ELSE IF t.buf[2] = chRBracket THEN "OSC"
    ELSE IF t.buf[2] \in {chP, chUnderscore, chCaret} THEN "DCS"
    ELSE "ESC"

\* Flush on tokenizer t: [t, tokens]
Flush(t) ==
    IF Len(t.buf) = 0 THEN [t |-> t, tokens |-> <<>>]
    ELSE LET kind == inferIncompleteKind(t)
             sgr2 == IF kind = "CSI" /\ Len(t.buf) >= 2
                     THEN applySGRParams(Tail2(t.buf), t.sgr)
                     ELSE t.sgr
             tok == [Kind |-> kind, Data |-> t.buf,
                     Styled |-> IF kind = "CSI" /\ Len(t.buf) >= 2
                                THEN sgrStyled(sgr2) ELSE FALSE,
                     IsEnd |-> FALSE]
         IN [t |-> [t EXCEPT !.sgr = sgr2, !.buf = <<>>, !.state = "Ground"],
             tokens |-> <<tok>>]

Styled(t) == sgrStyled(t.sgr)
InOSC8(t) == t.inOSC8

(***************************************************************************)
(* Byte strings.  B(<<"a", "/", ...>>) is the byte string of the characters *)
(***************************************************************************)
Lower == <<"a", "b", "c", "d", "e", "f", "g", "h", "i", "j", "k", "l", "m",
           "n", "o", "p", "q", "r", "s", "t", "u", "v", "w", "x", "y", "z">>
Upper == <<"A", "B", "C", "D", "E", "F", "G", "H", "I", "J", "K", "L", "M",
           "N", "O", "P", "Q", "R", "S", "T", "U", "V", "W", "X", "Y", "Z">>
Digit == <<"0", "1", "2", "3", "4", "5", "6", "7", "8", "9">>
Punct == (" " :> 32) @@ ("&" :> 38) @@ ("(" :> 40) @@ (")" :> 41) @@ ("-" :> 45)
         @@ ("." :> 46) @@ ("/" :> 47) @@ (":" :> 58) @@ (";" :> 59) @@ ("=" :> 61)
         @@ ("?" :> 63) @@ ("\\" :> 92) @@ ("]" :> 93) @@ ("_" :> 95) @@ ("~" :> 126)

Ord(c) ==
    IF c \in DOMAIN Punct THEN Punct[c]
    ELSE IF \E i \in 1..26 : Lower[i] = c THEN 96 + (CHOOSE i \in 1..26 : Lower[i] = c)
    ELSE IF \E i \in 1..26 : Upper[i] = c THEN 64 + (CHOOSE i \in 1..26 : Upper[i] = c)
    ELSE 47 + (CHOOSE i \in 1..10 : Digit[i] = c)

B(cs) == [i \in 1..Len(cs) |-> Ord(cs[i])]

\* Go slices: At(d, i) is d[i], Slice(d, s, e) is d[s:e], offsets from 0
At(d, i) == d[i + 1]
Slice(d, s, e) == SubSeq(d, s + 1, e)
HasLit(d, i, lit) == i + Len(lit) <= Len(d) /\ Slice(d, i, i + Len(lit)) = lit
HasPrefix(d, lit) == HasLit(d, 0, lit)
HasSuffix(d, lit) == Len(lit) <= Len(d) /\ Slice(d, Len(d) - Len(lit), Len(d)) = lit

\* the one element of a singleton set; { F(x) : x \in {e} } computes e once
Only(S) == CHOOSE x \in S : TRUE

MinOf(S) == Only({ (CHOOSE m \in T : \A n \in T : m <= n) : T \in {S} })
MaxOf(S) == Only({ (CHOOSE m \in T : \A n \in T : m >= n) : T \in {S} })

RECURSIVE JoinAll(_, _)
JoinAll(parts, sep) ==
    IF parts = <<>> THEN <<>>
    ELSE IF Len(parts) = 1 THEN parts[1]
    ELSE parts[1] \o sep \o JoinAll(Tail(parts), sep)

(***************************************************************************)
(* Character classes of the match pattern (buildPattern)                   *)
(***************************************************************************)
\* \w
isWordChar(b) ==
    b = 95 \/ (b >= 48 /\ b <= 57) \/ (b >= 65 /\ b <= 90) \/ (b >= 97 /\ b <= 122)
\* \d
isDigit(b) == b >= 48 /\ b <= 57
\* [^\s<>"'\x60\x00-\x1f\x7f]
isURLChar(b) == b > 32 /\ b # 127 /\ b \notin {60, 62, 34, 39, 96}
\* [\w./%+@\x{0080}-\x{10FFFF}-]
isPathChar(b) == isWordChar(b) \/ b \in {46, 47, 37, 43, 64, 45} \/ b >= 128
\* [^/\w.-], the boundary before a bare domain
isDomainBoundary(b) == ~(isWordChar(b) \/ b \in {47, 46, 45})
\* [^/\w.%+@\x{0080}-\x{10FFFF}-], the boundary before a path
isPathBoundary(b) == ~isPathChar(b)
\* [0-9;]
isSGRParam(b) == isDigit(b) \/ b = 59

(***************************************************************************)
(* The filesystem as the rewriter sees it.  A state of the filesystem is   *)
(* the set of canonical absolute paths that exist; SymLinks are fixed file *)
(* symlinks, which exist while their target does.                          *)
(***************************************************************************)
Cwd == B(<<"/", "w">>)
HomeDir == B(<<"/", "h">>)
Hostname == B(<<"h">>)
FileF == B(<<"/", "w", "/", "f", ".", "g", "o">>)
FileG == B(<<"/", "w", "/", "s", "/", "g", ".", "g", "o">>)
LinkL == B(<<"/", "w", "/", "l", ".", "g", "o">>)
SymLinks == [p \in {LinkL} |-> FileF]
Dirs == {<<47>>, Cwd, HomeDir, B(<<"/", "w", "/", "s">>)}
FsFiles == {FileF, FileG}

\* the tree the FileIndex process runs on: files named f under cwd, in cwd
\* itself, in a plain directory, in a directory whose name is excluded, in a
\* directory git ignores, and in a directory that is moved into cwd later
\* and holds an excluded directory of its own
dirSub == B(<<"/", "w", "/", "s">>)
dirExcl == B(<<"/", "w", "/", "n">>)
dirIgn == B(<<"/", "w", "/", "i">>)
dirNew == B(<<"/", "w", "/", "d">>)
fileTop == B(<<"/", "w", "/", "f">>)
fileSub == B(<<"/", "w", "/", "s", "/", "f">>)
fileExcl == B(<<"/", "w", "/", "n", "/", "f">>)
fileIgn == B(<<"/", "w", "/", "i", "/", "f">>)
fileNew == B(<<"/", "w", "/", "d", "/", "f">>)
dirNewExcl == B(<<"/", "w", "/", "d", "/", "n">>)
fileNewExcl == B(<<"/", "w", "/", "d", "/", "n", "/", "f">>)
TreeDirs == {Cwd, dirSub, dirExcl, dirIgn, dirNew, dirNewExcl}
StaticDirs == {Cwd, dirSub, dirExcl, dirIgn}
StaticFiles == {fileSub, fileExcl, fileIgn}
VolatileFiles == {fileTop, fileNew}
\* every path of the tree in the lexical order a walk reports them
TreeOrder ==
    <<Cwd, dirNew, fileNew, dirNewExcl, fileNewExcl, fileTop, dirIgn, fileIgn,
      dirExcl, fileExcl, dirSub, fileSub>>

\* the components of a path between '/' bytes
RECURSIVE SplitSlash(_, _, _)
SplitSlash(path, i, cur) ==
    IF i >= Len(path) THEN <<cur>>
    ELSE IF At(path, i) = 47 THEN <<cur>> \o SplitSlash(path, i + 1, <<>>)
    ELSE SplitSlash(path, i + 1, Append(cur, At(path, i)))

RECURSIVE CleanComps(_, _)
CleanComps(comps, stack) ==
    IF comps = <<>> THEN stack
    ELSE LET c == Head(comps)
         IN IF c = <<>> \/ c = <<46>> THEN CleanComps(Tail(comps), stack)
            ELSE IF c = <<46, 46>>
                 THEN CleanComps(Tail(comps),
                          IF stack = <<>> THEN stack ELSE SubSeq(stack, 1, Len(stack) - 1))
                 ELSE CleanComps(Tail(comps), Append(stack, c))

\* filepath.Clean of an absolute path
CleanAbs(path) == <<47>> \o JoinAll(CleanComps(SplitSlash(path, 0, <<>>), <<>>), <<47>>)

\* filepath.Join(dir, rel) for an absolute dir
JoinPath(dir, rel) == CleanAbs(dir \o <<47>> \o rel)

IsAbs(path) == Len(path) > 0 /\ path[1] = 47

\* the entry an existing path leads to, symlinks followed
FollowLink(path) == IF path \in DOMAIN SymLinks THEN SymLinks[path] ELSE path

\* os.Stat(path) succeeds
StatOK(files, path) == FollowLink(CleanAbs(path)) \in files \cup Dirs

\* filepath.EvalSymlinks(path): [ok, path]
EvalSymlinks(files, path) ==
    IF StatOK(files, path) THEN [ok |-> TRUE, path |-> FollowLink(CleanAbs(path))]
    ELSE [ok |-> FALSE, path |-> <<>>]

\* filepath.Base
Base(path) ==
    LET comps == SelectSeq(SplitSlash(path, 0, <<>>), LAMBDA c : c # <<>>)
    IN IF path = <<>> THEN <<46>>
       ELSE IF comps = <<>> THEN <<47>>
       ELSE comps[Len(comps)]

(***************************************************************************)
(* urlPattern: the pattern of buildPattern matched with Go's leftmost-first *)
(* rule.  A match is [s, e, g1, g2, g3, g4]: the whole match data[s:e] and   *)
(* the four groups, NoGroup where a group took no part.                      *)
(***************************************************************************)
NoGroup == <<-1, -1>>
NoMatch == [s |-> -1, e |-> -1, g1 |-> NoGroup, g2 |-> NoGroup, g3 |-> NoGroup, g4 |-> NoGroup]

litHTTPS == B(<<"h", "t", "t", "p", "s", ":", "/", "/">>)
litFile == B(<<"f", "i", "l", "e">>)

\* the length of the longest run of cls bytes from offset j
RunLen(d, j, cls(_)) ==
    IF j >= Len(d) THEN 0
    ELSE MinOf({k \in j..Len(d) : k = Len(d) \/ ~cls(At(d, k))}) - j

\* \x1b\[[0-9;]*m at offset i: its length, or 0
sgrLenAt(d, i) ==
    IF HasLit(d, i, <<escByte, chLBracket>>)
    THEN Only({ IF i + 2 + r < Len(d) /\ At(d, i + 2 + r) = chM THEN r + 3 ELSE 0 :
                r \in {RunLen(d, i + 2, isSGRParam)} })
    ELSE 0

\* (?:^|[cls]|\x1b\[[0-9;]*m) at offset i: the offsets where the boundary
\* can end, in the order the alternatives are tried
boundaryEnds(d, i, cls(_)) ==
    (IF i = 0 THEN <<0>> ELSE <<>>)
    \o (IF i < Len(d) /\ cls(At(d, i)) THEN <<i + 1>> ELSE <<>>)
    \o Only({ IF n > 0 THEN <<i + n>> ELSE <<>> : n \in {sgrLenAt(d, i)} })

\* [url]+ at offset j: its end, or -1
urlRunEndAt(d, j) ==
    Only({ IF r >= 1 THEN j + r ELSE -1 : r \in {RunLen(d, j, isURLChar)} })

\* group 1: https://[url]+ at offset i
matchURL(d, i) ==
    IF HasLit(d, i, litHTTPS)
    THEN Only({ IF e >= 0 THEN [NoMatch EXCEPT !.s = i, !.e = e, !.g1 = <<i, e>>]
                ELSE NoMatch :
                e \in {urlRunEndAt(d, i + 8)} })
    ELSE NoMatch

\* one domain, then /[url]+, at offset s: its end, or -1
oneDomainEndAt(d, s, dom) ==
    IF HasLit(d, s, dom \o <<47>>) THEN urlRunEndAt(d, s + Len(dom) + 1) ELSE -1

\* (?:d1|d2|...)/[url]+ at offset s: its end, or -1
domainEndAt(d, s, domains) ==
    Only({ IF ok = {} THEN -1 ELSE oneDomainEndAt(d, s, domains[MinOf(ok)]) :
           ok \in {{k \in 1..Len(domains) : oneDomainEndAt(d, s, domains[k]) >= 0}} })

\* the first of the offsets ends at which endAt finds a match: [s, e], or
\* [-1, -1]
firstEnd(ends, endAt(_)) ==
    Only({ IF ok = {} THEN <<-1, -1>>
           ELSE Only({ <<s, endAt(s)>> : s \in {ends[MinOf(ok)]} }) :
           ok \in {{k \in 1..Len(ends) : endAt(ends[k]) >= 0}} })

\* group 2 with its boundary at offset i; with no domains the alternative is ()
matchDomain(d, i, domains) ==
    IF Len(domains) = 0
    THEN [NoMatch EXCEPT !.s = i, !.e = i, !.g2 = <<i, i>>]
    ELSE Only({ IF g[1] < 0 THEN NoMatch
                ELSE [NoMatch EXCEPT !.s = i, !.e = g[2], !.g2 = g] :
                g \in {Only({ firstEnd(ends, LAMBDA s : domainEndAt(d, s, domains)) :
                              ends \in {boundaryEnds(d, i, isDomainBoundary)} })} })

\* (?:~|\.{0,2})/[path]+(?:\.\w+)? at offset s: its end, or -1
prefixedPathEndAt(d, s) ==
    Only({ IF slash < 0 THEN -1
           ELSE Only({ IF r >= 1 THEN slash + 1 + r ELSE -1 :
                       r \in {RunLen(d, slash + 1, isPathChar)} }) :
           slash \in {IF HasLit(d, s, <<126, 47>>) THEN s + 1
                      ELSE IF HasLit(d, s, <<46, 46, 47>>) THEN s + 2
                      ELSE IF HasLit(d, s, <<46, 47>>) THEN s + 1
                      ELSE IF HasLit(d, s, <<47>>) THEN s
                      ELSE -1} })

\* [path]+\.\w+ at offset s: its end, or -1
extPathEndAt(d, s) ==
    Only({ Only({ IF ks = {} THEN -1
                  ELSE Only({ s + k + 1 + RunLen(d, s + k + 1, isWordChar) :
                              k \in {MaxOf(ks)} }) :
                  ks \in {{k \in 1..run : s + k + 1 < Len(d) /\ At(d, s + k) = 46
                                          /\ isWordChar(At(d, s + k + 1))}} }) :
           run \in {RunLen(d, s, isPathChar)} })

\* \w+file at offset s: its end, or -1
fileWordEndAt(d, s) ==
    Only({ Only({ IF ks = {} THEN -1 ELSE s + MaxOf(ks) + 4 :
                  ks \in {{k \in 1..run : HasLit(d, s + k, litFile)}} }) :
           run \in {RunLen(d, s, isWordChar)} })

\* group 3 at offset s: its end, or -1
pathEndAt(d, s) ==
    Only({ IF a >= 0 THEN a
           ELSE Only({ IF b >= 0 THEN b ELSE fileWordEndAt(d, s) :
                       b \in {extPathEndAt(d, s)} }) :
           a \in {prefixedPathEndAt(d, s)} })

\* \d+ at offset j: its end, or -1
digitsEndAt(d, j) ==
    Only({ IF r >= 1 THEN j + r ELSE -1 : r \in {RunLen(d, j, isDigit)} })

\* group 4, (:\d+(?:[-:]\d+)?)?, at offset e: its end, e when it is absent
locEndAt(d, e) ==
    IF e < Len(d) /\ At(d, e) = 58
    THEN Only({ IF j < 0 THEN e
                ELSE IF j < Len(d) /\ At(d, j) \in {45, 58}
                THEN Only({ IF j2 >= 0 THEN j2 ELSE j : j2 \in {digitsEndAt(d, j + 1)} })
                ELSE j :
                j \in {digitsEndAt(d, e + 1)} })
    ELSE e

\* groups 3 and 4 with their boundary at offset i
matchPath(d, i) ==
    Only({ IF g[1] < 0 THEN NoMatch
           ELSE Only({ [NoMatch EXCEPT !.s = i, !.e = le, !.g3 = g,
                                       !.g4 = IF le > g[2] THEN <<g[2], le>> ELSE NoGroup] :
                       le \in {locEndAt(d, g[2])} }) :
           g \in {Only({ firstEnd(ends, LAMBDA s : pathEndAt(d, s)) :
                         ends \in {boundaryEnds(d, i, isPathBoundary)} })} })

\* the alternatives at offset i in the order of the pattern
matchAt(d, i, domains) ==
    Only({ IF u.s >= 0 THEN u
           ELSE Only({ IF dm.s >= 0 THEN dm ELSE matchPath(d, i) :
                       dm \in {matchDomain(d, i, domains)} }) :
           u \in {matchURL(d, i)} })

\* the leftmost match starting at or after pos
findFrom(d, pos, domains) ==
    Only({ IF hits = {} THEN NoMatch ELSE Only({ mt \in hits : mt.s = MinOf({h.s : h \in hits}) }) :
           hits \in {{mt \in {matchAt(d, i, domains) : i \in pos..Len(d)} : mt.s >= 0}} })

\* regexp.FindAllSubmatchIndex(data, -1): an empty match moves on by one
\* byte and is dropped when it touches the match before it
RECURSIVE findAllFrom(_, _, _, _)
findAllFrom(d, pos, prevMatchEnd, domains) ==
    IF pos > Len(d) THEN <<>>
    ELSE Only({ IF mt.s < 0 THEN <<>>
                ELSE IF mt.e = pos
                THEN (IF mt.s = prevMatchEnd THEN <<>> ELSE <<mt>>)
                     \o findAllFrom(d, pos + 1, mt.e, domains)
                ELSE <<mt>> \o findAllFrom(d, mt.e, mt.e, domains) :
                mt \in {findFrom(d, pos, domains)} })

FindAllSubmatchIndex(d, domains) == findAllFrom(d, 0, -1, domains)

(***************************************************************************)
(* FileIndex: ready and the indexed files, each [path, mtime]              *)
(***************************************************************************)
Mtime == (FileF :> 2) @@ (FileG :> 1) @@ (LinkL :> 2)
         @@ (fileTop :> 2) @@ (fileSub :> 2) @@ (fileNew :> 3)
         @@ (fileExcl :> 4) @@ (fileIgn :> 4) @@ (fileNewExcl :> 4)
WalkOrder == <<FileF, LinkL, FileG>>

NewFileIndex == [ready |-> FALSE, files |-> <<>>]

\* buildFromFilesystem: the walk reports regular files and file symlinks
\* whose target exists, in lexical order
buildFromFilesystem(files) ==
    LET seen == SelectSeq(WalkOrder, LAMBDA p : FollowLink(p) \in files)
    IN [i \in 1..Len(seen) |-> [path |-> seen[i], mtime |-> Mtime[seen[i]]]]

\* newestOf that keeps the oldest candidate
RECURSIVE oldestOf(_, _)
oldestOf(cands, newest) ==
    IF cands = <<>> THEN newest
    ELSE oldestOf(Tail(cands),
                  IF newest.path = <<>> \/ Head(cands).mtime < newest.mtime
                  THEN Head(cands) ELSE newest)

RECURSIVE newestOf(_, _)
newestOf(cands, newest) ==
    IF cands = <<>> THEN newest
    ELSE newestOf(Tail(cands),
                  IF Head(cands).mtime > newest.mtime THEN Head(cands) ELSE newest)

\* Resolve without the readiness check
ResolveNotReady(ix, path) ==
    LET candidates == SelectSeq(ix.files, LAMBDA c : Base(c.path) = Base(path))
        filtered == SelectSeq(candidates, LAMBDA c : HasSuffix(c.path, <<47>> \o path))
        chosen == IF (\E i \in 1..Len(path) : path[i] = 47) /\ Len(filtered) > 0
                  THEN filtered ELSE candidates
    IN IF Len(candidates) = 0 THEN <<>>
       ELSE IF Len(chosen) = 1 THEN chosen[1].path
       ELSE newestOf(chosen, [path |-> <<>>, mtime |-> 0]).path

\* FileIndex.Resolve: the path found for a candidate, <<>> for none
Resolve(ix, path) ==
    IF ~ix.ready THEN <<>>
    ELSE LET candidates == SelectSeq(ix.files, LAMBDA c : Base(c.path) = Base(path))
             filtered == SelectSeq(candidates, LAMBDA c : HasSuffix(c.path, <<47>> \o path))
             chosen == IF (\E i \in 1..Len(path) : path[i] = 47) /\ Len(filtered) > 0
                       THEN filtered ELSE candidates
         IN IF Len(candidates) = 0 THEN <<>>
            ELSE IF Len(chosen) = 1 THEN chosen[1].path
            ELSE newestOf(chosen, [path |-> <<>>, mtime |-> 0]).path

(***************************************************************************)
(* Linker.  Output is a sequence of pieces [d, ins]: d the bytes and ins    *)
(* whether the rewriter made them up (an OSC 8 open or close) or copied     *)
(* them from its input.  A link log entry records one emitted hyperlink.    *)
(***************************************************************************)
schemeFile == B(<<"f", "i", "l", "e">>)
schemeCursor == B(<<"c", "u", "r", "s", "o", "r">>)
domainHost == B(<<"g", ".", "c", "o">>)

Lit(d) == IF d = <<>> THEN <<>> ELSE <<[d |-> d, ins |-> FALSE]>>
Ins(d) == <<[d |-> d, ins |-> TRUE]>>

\* kind "file", "url" or "symbol"; for a file link its target, whether the
\* target came from the filesystem probe ("stat") or the index, whether the
\* probe was answered from fileCache, and whether the target existed when the
\* link was written; tkStyled is the tokenizer's SGR state at the linked text
LinkEntry(kind, target, via, cached, existed, tkStyled) ==
    [kind |-> kind, target |-> target, via |-> via, cached |-> cached,
     existed |-> existed, tkStyled |-> tkStyled]

NewLinker(opts) ==
    [scheme |-> IF opts.scheme = <<>> THEN schemeFile ELSE opts.scheme,
     domains |-> opts.domains,
     resolveBasename |-> opts.resolveBasename,
     terminator |-> IF opts.terminator = "" THEN "st" ELSE opts.terminator,
     symbolLinks |-> opts.symbolLinks,
     fileCache |-> [q \in {} |-> FALSE],
     styled |-> FALSE,
     inOSC8 |-> FALSE]

resolvePath(files, path) ==
    LET absPath == IF HasPrefix(path, <<126, 47>>)
                   THEN JoinPath(HomeDir, Slice(path, 2, Len(path)))
                   ELSE IF IsAbs(path) THEN path
                   ELSE JoinPath(Cwd, path)
        resolved == EvalSymlinks(files, absPath)
    IN IF resolved.ok THEN resolved.path ELSE absPath

\* pathExists without the probe: a path not yet in the cache is taken to exist
pathExistsNoStat(cache, files, path) ==
    IF path \in DOMAIN cache THEN [exists |-> cache[path], cache |-> cache]
    ELSE [exists |-> TRUE,
          cache |-> [q \in DOMAIN cache \cup {path} |->
                        IF q = path THEN TRUE ELSE cache[q]]]

\* mutant of pathExists: every query probes the filesystem and stores what
\* it found
pathExistsUncached(cache, files, path) ==
    [exists |-> StatOK(files, path),
     cache |-> [q \in DOMAIN cache \cup {path} |->
                   IF q = path THEN StatOK(files, path) ELSE cache[q]]]

\* pathExists: [exists, cache]; the first answer for a path is kept
pathExists(cache, files, path) ==
    IF path \in DOMAIN cache THEN [exists |-> cache[path], cache |-> cache]
    ELSE [exists |-> StatOK(files, path),
          cache |-> [q \in DOMAIN cache \cup {path} |->
                        IF q = path THEN StatOK(files, path) ELSE cache[q]]]

st(l) == IF l.terminator = "bel" THEN <<belByte>> ELSE <<escByte, chBackslash>>

litOSC8 == <<escByte, chRBracket, 56, chSemi, chSemi>>

osc8Link(l, url, display) ==
    Ins(litOSC8 \o url \o st(l)) \o Lit(display) \o Ins(litOSC8 \o st(l))

\* normalizeLocSuffix that keeps a line range as it is
normalizeLocSuffixKeep(loc) == loc

normalizeLocSuffix(loc) ==
    LET dashes == {i \in 1..(Len(loc) - 1) : At(loc, i) = 45}
    IN IF Len(loc) = 0 \/ dashes = {} THEN loc
       ELSE Slice(loc, 0, MinOf(dashes)) \o <<58, 49>>

formatFileURL(l, absPath, locSuffix) ==
    IF l.scheme = schemeFile
    THEN B(<<"f", "i", "l", "e", ":", "/", "/">>) \o Hostname \o absPath
    ELSE l.scheme \o B(<<":", "/", "/", "f", "i", "l", "e">>) \o absPath
         \o normalizeLocSuffix(locSuffix)

wrapFile(l, prefix, absPath, locSuffix, displayText) ==
    Lit(prefix) \o osc8Link(l, formatFileURL(l, absPath, locSuffix), displayText)

\* trimURLSuffix: [url, suffix]
trimURLSuffix(url) ==
    IF Len(url) = 0 \/ url[Len(url)] # 41 THEN [url |-> url, suffix |-> <<>>]
    ELSE IF \E i \in 1..Len(url) : url[i] = 40 THEN [url |-> url, suffix |-> <<>>]
    ELSE [url |-> SubSeq(url, 1, Len(url) - 1), suffix |-> <<41>>]

\* wrapURL that loses the trimmed closing parenthesis
wrapURLDropSuffix(l, url) ==
    LET t == trimURLSuffix(url)
    IN osc8Link(l, t.url, t.url)

wrapURL(l, url) ==
    LET t == trimURLSuffix(url)
    IN osc8Link(l, t.url, t.url) \o Lit(t.suffix)

wrapBareDomain(l, prefix, domain) ==
    Lit(prefix) \o osc8Link(l, litHTTPS \o domain, domain)

\* stripGitDiffPrefix: [ok, path]
stripGitDiffPrefix(path) ==
    IF Len(path) > 2 /\ path[1] \in {97, 98} /\ path[2] = 47
    THEN [ok |-> TRUE, path |-> Slice(path, 2, Len(path))]
    ELSE [ok |-> FALSE, path |-> <<>>]

\* the log entry of a file link: a LinkEntry with the path as matched, its
\* location suffix, the display text, and what the filesystem held at the
\* time for the path as written (lit) and for the path without its git diff
\* prefix (strip)
FileEntry(files, target, via, cached, tkStyled, pathPart, locSuffix, displayText) ==
    Only({ [kind |-> "file", target |-> target, via |-> via, cached |-> cached,
            existed |-> StatOK(files, target), tkStyled |-> tkStyled,
            asked |-> pathPart, loc |-> locSuffix, display |-> displayText,
            lit |-> p[1], litExisted |-> StatOK(files, p[1]),
            strip |-> p[2], stripExisted |-> StatOK(files, p[2])] :
           p \in {<<resolvePath(files, pathPart),
                    resolvePath(files, stripGitDiffPrefix(pathPart).path)>>} })

\* wrapStripped that asks the index before it probes the stripped path
wrapFromIndexFirst(l, cache, files, ix, prefix, pathPart, locSuffix, displayText, tkStyled) ==
    IF l.resolveBasename /\ Resolve(ix, pathPart) # <<>>
    THEN [ok |-> TRUE, cache |-> cache,
          out |-> wrapFile(l, prefix, Resolve(ix, pathPart), locSuffix, displayText),
          log |-> <<FileEntry(files, Resolve(ix, pathPart), "index", FALSE, tkStyled,
                              pathPart, locSuffix, displayText)>>]
    ELSE IF ~stripGitDiffPrefix(pathPart).ok
    THEN [ok |-> FALSE, cache |-> cache, out |-> <<>>, log |-> <<>>]
    ELSE Only({ Only({ IF second.exists
                       THEN [ok |-> TRUE, cache |-> second.cache,
                             out |-> wrapFile(l, prefix, strippedAbs, locSuffix, displayText),
                             log |-> <<FileEntry(files, strippedAbs, "stat",
                                                 strippedAbs \in DOMAIN cache, tkStyled,
                                                 pathPart, locSuffix, displayText)>>]
                       ELSE [ok |-> FALSE, cache |-> second.cache, out |-> <<>>,
                             log |-> <<>>] :
                       second \in {pathExists(cache, files, strippedAbs)} }) :
                strippedAbs \in {resolvePath(files, stripGitDiffPrefix(pathPart).path)} })

\* wrapFilePath after both probes have failed: the index is asked
wrapFromIndex(l, cache, files, ix, prefix, pathPart, locSuffix, displayText, tkStyled) ==
    IF ~l.resolveBasename THEN [ok |-> FALSE, cache |-> cache, out |-> <<>>, log |-> <<>>]
    ELSE Only({ IF found = <<>>
                THEN [ok |-> FALSE, cache |-> cache, out |-> <<>>, log |-> <<>>]
                ELSE [ok |-> TRUE, cache |-> cache,
                      out |-> wrapFile(l, prefix, found, locSuffix, displayText),
                      log |-> <<FileEntry(files, found, "index", FALSE,
                                          tkStyled, pathPart, locSuffix, displayText)>>] :
                found \in {Resolve(ix, pathPart)} })

\* wrapFilePath after the probe of the path as written has failed: the path
\* without its git diff prefix is probed
wrapStripped(l, cache, files, ix, prefix, pathPart, locSuffix, displayText, tkStyled) ==
    IF ~stripGitDiffPrefix(pathPart).ok
    THEN wrapFromIndex(l, cache, files, ix, prefix, pathPart, locSuffix, displayText,
                       tkStyled)
    ELSE Only({ Only({ IF second.exists
                       THEN [ok |-> TRUE, cache |-> second.cache,
                             out |-> wrapFile(l, prefix, strippedAbs, locSuffix, displayText),
                             log |-> <<FileEntry(files, strippedAbs, "stat",
                                                 strippedAbs \in DOMAIN cache, tkStyled,
                                                 pathPart, locSuffix, displayText)>>]
                       ELSE wrapFromIndex(l, second.cache, files, ix, prefix, pathPart,
                                          locSuffix, displayText, tkStyled) :
                       second \in {pathExists(cache, files, strippedAbs)} }) :
                strippedAbs \in {resolvePath(files, stripGitDiffPrefix(pathPart).path)} })

\* wrapFilePath: [ok, out, cache, log]
wrapFilePath(l, cache, files, ix, prefix, pathPart, locSuffix, displayText, tkStyled) ==
    Only({ Only({ IF first.exists
                  THEN [ok |-> TRUE, cache |-> first.cache,
                        out |-> wrapFile(l, prefix, absPath, locSuffix, displayText),
                        log |-> <<FileEntry(files, absPath, "stat", absPath \in DOMAIN cache,
                                            tkStyled, pathPart, locSuffix, displayText)>>]
                  ELSE wrapStripped(l, first.cache, files, ix, prefix, pathPart, locSuffix,
                                    displayText, tkStyled) :
                  first \in {pathExists(cache, files, absPath)} }) :
           absPath \in {resolvePath(files, pathPart)} })

wrapSymbol(l, display, symbol, isFunction) ==
    osc8Link(l,
             l.scheme
             \o B(<<":", "/", "/", "m", "a", "a", "a", "s", "h", "j", "p", ".", "s", "y", "m",
                    "b", "o", "l", "-", "o", "p", "e", "n", "e", "r", "?", "s", "y", "m", "b",
                    "o", "l", "=">>)
             \o symbol \o B(<<"&", "c", "w", "d", "=">>) \o Cwd
             \o (IF isFunction
                 THEN B(<<"&", "k", "i", "n", "d", "=", "F", "u", "n", "c", "t", "i", "o", "n">>)
                 ELSE <<>>),
             display)

\* mutant of chainsAt: a dot chains on even when no word precedes it
chainsAtLeadingDot(data, i, qualifiedName) ==
    At(data, i) = 46 /\ i + 1 < Len(data) /\ isWordChar(At(data, i + 1))

\* the test of replaceSymbolsStyledSegment on a non-word byte: the byte is a
\* dot that continues the qualified name
chainsAt(data, i, qualifiedName) ==
    At(data, i) = 46 /\ Len(qualifiedName) > 0
    /\ i + 1 < Len(data) /\ isWordChar(At(data, i + 1))

\* mutant of isFunctionAt: the byte after the word is not looked at
isFunctionAtNever(data, j) == FALSE

\* isFunction of replaceSymbolsStyledSegment: the word ending at j is followed
\* by an opening parenthesis
isFunctionAt(data, j) == j < Len(data) /\ At(data, j) = 40

\* replaceSymbolsStyledSegment from offset i: [out, log]
RECURSIVE replaceSymbolsFrom(_, _, _, _, _)
replaceSymbolsFrom(l, data, i, qualifiedName, tkStyled) ==
    IF i >= Len(data) THEN [out |-> <<>>, log |-> <<>>]
    ELSE IF ~isWordChar(At(data, i))
    THEN LET chained == chainsAt(data, i, qualifiedName)
         IN Only({ [out |-> Lit(<<At(data, i)>>) \o rest.out, log |-> rest.log] :
                   rest \in {replaceSymbolsFrom(l, data, i + 1,
                                 IF chained THEN Append(qualifiedName, 46) ELSE <<>>,
                                 tkStyled)} })
    ELSE Only({ LET word == Slice(data, i, j)
                    qn == qualifiedName \o word
                    isFunction == isFunctionAt(data, j)
                IN Only({ IF Len(word) >= 3
                          THEN [out |-> wrapSymbol(l, word, qn, isFunction) \o rest.out,
                                log |-> <<LinkEntry("symbol", qn, "symbol", FALSE, FALSE,
                                                    tkStyled)>> \o rest.log]
                          ELSE [out |-> Lit(word) \o rest.out, log |-> rest.log] :
                          rest \in {replaceSymbolsFrom(l, data, j, qn, tkStyled)} }) :
                j \in {i + RunLen(data, i, isWordChar)} })

replaceSymbolsStyledSegment(l, data, tkStyled) ==
    replaceSymbolsFrom(l, data, 0, <<>>, tkStyled)

\* a segment outside every match: rewritten for symbols when the gate is open
plainSegment(l, segment, styled, tkStyled) ==
    IF l.symbolLinks /\ styled THEN replaceSymbolsStyledSegment(l, segment, tkStyled)
    ELSE [out |-> Lit(segment), log |-> <<>>]

submatch(g) == g[1] # -1 /\ g[2] # -1 /\ g[1] # g[2]

\* one match of the loop of processTextWithState: [out, cache, log]
processMatch(l, cache, files, ix, data, styled, tkStyled, mt) ==
    IF submatch(mt.g1)
    THEN [out |-> wrapURL(l, Slice(data, mt.g1[1], mt.g1[2])),
          cache |-> cache,
          log |-> <<LinkEntry("url", <<>>, "url", FALSE, FALSE, tkStyled)>>]
    ELSE IF submatch(mt.g2)
    THEN [out |-> wrapBareDomain(l, Slice(data, mt.s, mt.g2[1]),
                                 Slice(data, mt.g2[1], mt.g2[2])),
          cache |-> cache,
          log |-> <<LinkEntry("url", <<>>, "domain", FALSE, FALSE, tkStyled)>>]
    ELSE IF ~submatch(mt.g3)
    THEN [out |-> Lit(Slice(data, mt.s, mt.e)), cache |-> cache, log |-> <<>>]
    ELSE LET pathPart == Slice(data, mt.g3[1], mt.g3[2])
             locSuffix == IF submatch(mt.g4) THEN Slice(data, mt.g4[1], mt.g4[2]) ELSE <<>>
         IN Only({ IF wrapped.ok
                   THEN [out |-> wrapped.out, cache |-> wrapped.cache, log |-> wrapped.log]
                   ELSE Only({ [out |-> unlinked.out, cache |-> wrapped.cache,
                                log |-> unlinked.log] :
                               unlinked \in {plainSegment(l, Slice(data, mt.s, mt.e),
                                                          styled, tkStyled)} }) :
                   wrapped \in {wrapFilePath(l, cache, files, ix,
                                             Slice(data, mt.s, mt.g3[1]), pathPart,
                                             locSuffix, pathPart \o locSuffix, tkStyled)} })

\* the loop of processTextWithState over the matches from the k-th on:
\* [out, cache, log]
RECURSIVE processMatches(_, _, _, _, _, _, _, _, _, _)
processMatches(l, cache, files, ix, data, styled, tkStyled, matches, k, last) ==
    IF k > Len(matches)
    THEN Only({ [out |-> tl.out, cache |-> cache, log |-> tl.log] :
                tl \in {IF last < Len(data)
                        THEN plainSegment(l, Slice(data, last, Len(data)), styled, tkStyled)
                        ELSE [out |-> <<>>, log |-> <<>>]} })
    ELSE Only({ Only({ Only({ [out |-> before.out \o this.out \o rest.out,
                               cache |-> rest.cache,
                               log |-> before.log \o this.log \o rest.log] :
                              rest \in {processMatches(l, this.cache, files, ix, data, styled,
                                                       tkStyled, matches, k + 1,
                                                       matches[k].e)} }) :
                       this \in {processMatch(l, cache, files, ix, data, styled, tkStyled,
                                              matches[k])} }) :
                before \in {IF matches[k].s > last
                            THEN plainSegment(l, Slice(data, last, matches[k].s),
                                              styled, tkStyled)
                            ELSE [out |-> <<>>, log |-> <<>>]} })

\* processTextWithState: [out, cache, log]
processTextWithState(l, cache, files, ix, data, styled, inOSC8, tkStyled) ==
    IF inOSC8 THEN [out |-> Lit(data), cache |-> cache, log |-> <<>>]
    ELSE Only({ IF Len(matches) = 0
                THEN Only({ [out |-> r.out, cache |-> cache, log |-> r.log] :
                            r \in {plainSegment(l, data, styled, tkStyled)} })
                ELSE processMatches(l, cache, files, ix, data, styled, tkStyled,
                                    matches, 1, 0) :
                matches \in {FindAllSubmatchIndex(data, l.domains)} })

\* one token of the loop of Linker.Write: [l, out, log]
writeToken(l, files, ix, tok, tkStyled) ==
    IF tok.Kind = "Text"
    THEN Only({ [l |-> [l EXCEPT !.fileCache = processed.cache],
                 out |-> processed.out, log |-> processed.log] :
                processed \in {processTextWithState(l, l.fileCache, files, ix, tok.Data,
                                                    l.styled, l.inOSC8, tkStyled)} })
    ELSE IF tok.Kind = "SGR"
    THEN [l |-> [l EXCEPT !.styled = tok.Styled], out |-> Lit(tok.Data), log |-> <<>>]
    ELSE IF tok.Kind = "OSC8"
    THEN [l |-> [l EXCEPT !.inOSC8 = ~tok.IsEnd], out |-> Lit(tok.Data), log |-> <<>>]
    ELSE [l |-> l, out |-> Lit(tok.Data), log |-> <<>>]

\* the token loop of Linker.Write from the k-th token on: [l, out, log].
\* tkStyled follows the tokenizer's SGR state along the tokens.
RECURSIVE writeTokens(_, _, _, _, _, _)
writeTokens(l, files, ix, tokens, k, tkStyled) ==
    IF k > Len(tokens) THEN [l |-> l, out |-> <<>>, log |-> <<>>]
    ELSE Only({ Only({ [l |-> rest.l, out |-> this.out \o rest.out,
                        log |-> this.log \o rest.log] :
                       rest \in {writeTokens(this.l, files, ix, tokens, k + 1,
                                             IF tokens[k].Kind = "SGR"
                                             THEN tokens[k].Styled ELSE tkStyled)} }) :
                this \in {writeToken(l, files, ix, tokens[k], tkStyled)} })

\* Linker.Write(p): [t, l, out, log]
Write(t, l, files, ix, p) ==
    Only({ Only({ [t |-> r.t, l |-> w.l, out |-> w.out, log |-> w.log] :
                  w \in {writeTokens(l, files, ix, r.tokens, 1, Styled(t))} }) :
           r \in {Feed(t, p)} })

\* Linker.Flush(): [t, out]
LinkerFlush(t) ==
    Only({ [t |-> r.t,
            out |-> IF Len(r.tokens) = 0 THEN <<>> ELSE Lit(r.tokens[1].Data)] :
           r \in {Flush(t)} })

(***************************************************************************)
(* The tokenizer driven directly: any sequence of Feed and Flush calls.    *)
(***************************************************************************)
MaxOps == 3

chSpace == 32
chEight == 56
chOne == 49

\* a run of n copies of byte b
Fill(b, n) == [i \in 1..n |-> b]

ShortChunks ==
    { <<chX>>, <<escByte>>, <<chLBracket>>, <<chRBracket>>, <<chP>>, <<chBackslash>>,
      <<belByte>>, <<chM>>, <<chOne>>, <<chSemi>>,
      <<escByte, chLBracket>>, <<escByte, chRBracket>>, <<escByte, chP>>,
      <<chEight, chSemi, chSemi>>, <<chEight, chSemi, chSemi, chX>>,
      <<chX, escByte, chLBracket, chOne, chM, chX>>,
      <<escByte, chRBracket, chEight, chSemi, chSemi, chX, escByte, chBackslash,
        chX, escByte>> }

\* inputs that bring the accumulator to maxBufferSize inside an OSC, a DCS and
\* a CSI, and a plain text run longer than maxBufferSize
LongChunks ==
    { <<escByte, chRBracket>> \o Fill(chX, maxBufferSize - 2),
      <<escByte, chP>> \o Fill(chX, maxBufferSize - 2),
      <<escByte, chLBracket>> \o Fill(chSpace, maxBufferSize - 2),
      Fill(chX, maxBufferSize + 1) }

\* the bytes a single step is examined on
TokBytes == { p[1] : p \in { q \in ShortChunks : Len(q) = 1 } } \cup {chSpace}

RECURSIVE ConcatData(_)
ConcatData(tokens) ==
    IF tokens = <<>> THEN <<>> ELSE Head(tokens).Data \o ConcatData(Tail(tokens))

HasKind(tokens, kind) == \E i \in 1..Len(tokens) : tokens[i].Kind = kind

TokInit ==
    /\ tk = NewAnsiTokenizer
    /\ pre = NewAnsiTokenizer
    /\ fed = <<>>
    /\ emitted = <<>>
    /\ lastOut = <<>>
    /\ lastOp = "init"
    /\ nops = 0
    /\ nflush = 0
    /\ lk = NewLinker([scheme |-> <<>>, domains |-> <<>>, resolveBasename |-> FALSE,
                       terminator |-> "", symbolLinks |-> FALSE])
    /\ sink = <<>>
    /\ fs = FsFiles
    /\ idx = NewFileIndex
    /\ links = <<>>
    /\ fi = Idle
    /\ wk = Idle
    /\ pt = Idle
    /\ cut = <<>>
    /\ rp = Idle

\* a long chunk is fed only as the first call
TokFeed ==
    \E p \in ShortChunks \cup (IF nops = 0 THEN LongChunks ELSE {}) :
        /\ nops < MaxOps
        /\ \E r \in {Feed(tk, p)} :
              /\ tk' = r.t
              /\ lastOut' = r.tokens
              /\ emitted' = emitted \o r.tokens
        /\ pre' = tk
        /\ fed' = fed \o p
        /\ lastOp' = "feed"
        /\ nops' = nops + 1
        /\ UNCHANGED nflush
        /\ UNCHANGED <<linkVars, procVars>>

TokFlush ==
    /\ nops < MaxOps
    /\ \E r \in {Flush(tk)} :
          /\ tk' = r.t
          /\ lastOut' = r.tokens
          /\ emitted' = emitted \o r.tokens
    /\ pre' = tk
    /\ lastOp' = "flush"
    /\ nops' = nops + 1
    /\ nflush' = nflush + 1
    /\ UNCHANGED fed
    /\ UNCHANGED <<linkVars, procVars>>

TokNext == TokFeed \/ TokFlush

SpecTok == TokInit /\ [][TokNext]_vars

(***************************************************************************)
(* The tokenizer fed whole and broken escape sequences: SGR sequences,     *)
(* OSC 8 and other OSC strings with both terminators, strings left at an   *)
(* ESC, and CSI sequences cut short.                                       *)
(***************************************************************************)
chNul == 0

CSISeq(cs) == <<escByte, chLBracket>> \o B(cs)
OSCSeq(cs) == <<escByte, chRBracket>> \o B(cs)
stBytes == <<escByte, chBackslash>>

SGRChunks ==
    { CSISeq(<<"m">>), CSISeq(<<"1", "m">>), CSISeq(<<"2", "2", "m">>),
      CSISeq(<<"3", "1", "m">>), CSISeq(<<"3", "9", "m">>),
      CSISeq(<<"3", "8", ";", "5", ";", "1", "m">>),
      CSISeq(<<"4", ";", "4", "8", ";", "2", ";", "0", ";", "0", ";", "0", ";", "3", "9", "m">>),
      CSISeq(<<"1", "0", "1", ";", "2", "4", "m">>),
      CSISeq(<<"4", "9", "m">>) }

OSCChunks ==
    { OSCSeq(<<"8", ";", ";", "u">>) \o <<belByte>>,
      OSCSeq(<<"8", ";", ";">>) \o stBytes,
      OSCSeq(<<";", "8", ";", "i", ";", "u">>) \o stBytes,
      OSCSeq(<<"8", ";", "u">>) \o <<belByte>>,
      OSCSeq(<<"8", "8", ";", ";", "u">>) \o <<belByte>>,
      OSCSeq(<<"8", ";", ";">>) }

\* a string left at an ESC, the bytes that may follow it, a CSI cut short and
\* a byte no CSI can hold
BrokenChunks ==
    { OSCSeq(<<"0", ";", "x">>) \o <<escByte>>,
      <<escByte, chP, chX, escByte>>,
      stBytes, <<chBackslash>>, <<belByte>>, <<chX>>,
      CSISeq(<<"1">>),
      <<chNul>> \o CSISeq(<<"1", "m">>) }

SeqChunks == SGRChunks \cup OSCChunks \cup BrokenChunks

SeqFeed ==
    \E p \in SeqChunks :
        /\ nops < MaxOps
        /\ \E r \in {Feed(tk, p)} :
              /\ tk' = r.t
              /\ lastOut' = r.tokens
              /\ emitted' = emitted \o r.tokens
        /\ pre' = tk
        /\ fed' = fed \o p
        /\ lastOp' = "feed"
        /\ nops' = nops + 1
        /\ UNCHANGED nflush
        /\ UNCHANGED <<linkVars, procVars>>

SeqFlush ==
    /\ nops < MaxOps
    /\ \E r \in {Flush(tk)} :
          /\ tk' = r.t
          /\ lastOut' = r.tokens
          /\ emitted' = emitted \o r.tokens
    /\ pre' = tk
    /\ lastOp' = "flush"
    /\ nops' = nops + 1
    /\ nflush' = nflush + 1
    /\ UNCHANGED fed
    /\ UNCHANGED <<linkVars, procVars>>

SeqNext == SeqFeed \/ SeqFlush

SpecSeq == TokInit /\ [][SeqNext]_vars

(***************************************************************************)
(* The Linker driven through Write and Flush while files come and go and   *)
(* the index is started.                                                   *)
(***************************************************************************)
LinkerOptions(scheme, domains, resolveBasename, terminator, symbolLinks) ==
    [scheme |-> scheme, domains |-> domains, resolveBasename |-> resolveBasename,
     terminator |-> terminator, symbolLinks |-> symbolLinks]

Options ==
    { LinkerOptions(<<>>, <<domainHost>>, TRUE, "", FALSE),
      LinkerOptions(<<>>, <<domainHost>>, FALSE, "", TRUE),
      LinkerOptions(schemeCursor, <<domainHost>>, TRUE, "bel", TRUE),
      LinkerOptions(schemeCursor, <<>>, FALSE, "", TRUE),
      LinkerOptions(schemeCursor, <<domainHost>>, FALSE, "", FALSE) }

\* the files that are deleted and created while the Linker runs
Volatile == {FileF}

sgrBold == <<escByte, chLBracket, chOne, chM>>
sgrResetSeq == <<escByte, chLBracket, chM>>
osc8Open == litOSC8 \o <<chX, belByte>>
osc8Close == litOSC8 \o <<escByte, chBackslash>>

WriteChunks ==
    { B(<<"f", ".", "g", "o">>),
      B(<<"a", "/", "f", ".", "g", "o", ":", "3", "-", "4", " ", "g", ".", "g", "o", ":", "7">>),
      B(<<".", "/", "l", ".", "g", "o", ":", "1", ":", "2">>),
      B(<<"h", "t", "t", "p", "s", ":", "/", "/", "u", ")">>),
      B(<<"(", "g", ".", "c", "o", "/", "x", " ", "M", "a", "k", "e", "f", "i", "l", "e">>),
      B(<<"F", "o", "o", ".", "B", "a", "r", "(", "x">>),
      sgrBold,
      sgrResetSeq,
      sgrBold \o B(<<"F", "o", "o">>) \o <<escByte, chLBracket>>,
      osc8Open,
      osc8Close }

\* an OSC 8 open whose URI makes the sequence longer than maxBufferSize
LongOpen == litOSC8 \o Fill(chX, maxBufferSize - 4) \o <<belByte>>

Init ==
    /\ tk = NewAnsiTokenizer
    /\ pre = NewAnsiTokenizer
    /\ fed = <<>>
    /\ emitted = <<>>
    /\ lastOut = <<>>
    /\ lastOp = "init"
    /\ nops = 0
    /\ nflush = 0
    /\ lk \in {NewLinker(o) : o \in Options}
    /\ sink = <<>>
    /\ fs = FsFiles
    /\ idx = NewFileIndex
    /\ links = <<>>
    /\ fi = Idle
    /\ wk = Idle
    /\ pt = Idle
    /\ cut = <<>>
    /\ rp = Idle

\* Linker.Write(p); the long chunk is written only as the first call
LWrite ==
    \E p \in WriteChunks \cup (IF nops = 0 THEN {LongOpen} ELSE {}) :
        /\ nops < MaxOps
        /\ \E r \in {Write(tk, lk, fs, idx, p)} :
              /\ tk' = r.t
              /\ lk' = r.l
              /\ sink' = sink \o r.out
              /\ links' = r.log
        /\ fed' = fed \o p
        /\ lastOp' = "write"
        /\ nops' = nops + 1
        /\ UNCHANGED <<pre, emitted, lastOut, nflush, fs, idx, procVars>>

\* Linker.Flush()
LFlush ==
    /\ nops < MaxOps
    /\ \E r \in {LinkerFlush(tk)} :
          /\ tk' = r.t
          /\ sink' = sink \o r.out
    /\ lastOp' = "flush"
    /\ nops' = nops + 1
    /\ nflush' = nflush + 1
    /\ links' = <<>>
    /\ UNCHANGED <<pre, fed, emitted, lastOut, lk, fs, idx, procVars>>

\* a file is deleted
FsRemove ==
    \E f \in fs \cap Volatile :
        /\ fs' = fs \ {f}
        /\ UNCHANGED <<tokVars, lk, sink, idx, links, procVars>>

\* a file is created
FsCreate ==
    \E f \in Volatile \ fs :
        /\ fs' = fs \cup {f}
        /\ UNCHANGED <<tokVars, lk, sink, idx, links, procVars>>

\* Linker.StartIndexer: FileIndex.Start builds the index and marks it ready
StartIndexer ==
    /\ lk.resolveBasename
    /\ ~idx.ready
    /\ idx' = [ready |-> TRUE, files |-> buildFromFilesystem(fs)]
    /\ UNCHANGED <<tokVars, lk, sink, fs, links, procVars>>

Next == LWrite \/ LFlush \/ FsRemove \/ FsCreate \/ StartIndexer

Spec == Init /\ [][Next]_vars

\* the sink's bytes, and those of them the rewriter copied from its input
RECURSIVE SinkBytes(_)
SinkBytes(pieces) ==
    IF pieces = <<>> THEN <<>> ELSE Head(pieces).d \o SinkBytes(Tail(pieces))

RECURSIVE CopiedBytes(_)
CopiedBytes(pieces) ==
    IF pieces = <<>> THEN <<>>
    ELSE (IF Head(pieces).ins THEN <<>> ELSE Head(pieces).d) \o CopiedBytes(Tail(pieces))


\* C1: the data of all emitted tokens, in order, followed by what is still
\* buffered, is the concatenation of the Feed inputs; after a Flush nothing
\* is buffered, so the tokens alone carry every input byte.
ByteFaithful ==
    /\ ConcatData(emitted) \o tk.buf = fed
    /\ (lastOp = "flush" => ConcatData(emitted) = fed)

\* C1 witness: the overflow clamp has fired (a token of kind Other) on an
\* input longer than maxBufferSize, and the stream was then flushed
ByteFaithfulWitness ==
    /\ lastOp = "flush"
    /\ Len(fed) > maxBufferSize
    /\ HasKind(emitted, "Other")


\* adjacent Text tokens merged into one: what is left of a token stream when
\* the places where plain text was cut are forgotten
RECURSIVE MergeText(_, _)
MergeText(tokens, acc) ==
    IF tokens = <<>> THEN acc
    ELSE LET h == Head(tokens)
         IN IF h.Kind = "Text" /\ acc # <<>> /\ acc[Len(acc)].Kind = "Text"
            THEN MergeText(Tail(tokens),
                     [acc EXCEPT ![Len(acc)] = Token("Text", @.Data \o h.Data)])
            ELSE MergeText(Tail(tokens), Append(acc, h))

\* the tokens of one Feed of the whole input on a fresh tokenizer, followed
\* by those of a Flush when withFlush
OneShot(input, withFlush) ==
    LET r == Feed(NewAnsiTokenizer, input)
    IN r.tokens \o (IF withFlush THEN Flush(r.t).tokens ELSE <<>>)

\* C7: however the input was split into Feed calls (any number of calls for
\* inputs up to maxBufferSize bytes, two calls for longer ones), the calls,
\* with or without a final Flush, yield the same non-Text tokens (kind, data,
\* styled, isEnd) in the same order as one Feed of the whole input, with the
\* same text bytes between them.
ChunkIndependent ==
    ( /\ lastOp # "init"
      /\ nflush = (IF lastOp = "flush" THEN 1 ELSE 0)
      /\ (Len(fed) <= maxBufferSize \/ nops - nflush <= 2) )
    => MergeText(emitted, <<>>) = MergeText(OneShot(fed, lastOp = "flush"), <<>>)

\* C7 witness: ESC [ m was cut after ESC [ ; the first Feed returned nothing,
\* the second one the single SGR token, the Flush nothing more
ChunkIndependentWitness ==
    /\ lastOp = "flush"
    /\ nops = 3
    /\ nflush = 1
    /\ fed = <<escByte, chLBracket, chM>>
    /\ Len(emitted) = 1
    /\ emitted[1].Kind = "SGR"

\* one byte fed in tokenizer state t yields at most one token, and the flags
\* move only with a token of their own kind
StepFrame(t) ==
    \A b \in TokBytes :
        LET a == FeedByte([t |-> t, tokens |-> <<>>], b)
        IN /\ Len(a.tokens) <= 1
           /\ (Styled(a.t) # Styled(t) => HasKind(a.tokens, "SGR"))
           /\ (InOSC8(a.t) # InOSC8(t) => HasKind(a.tokens, "OSC8"))

\* C8 as stated: styled changes only where an SGR token is emitted and inOSC8
\* only where an OSC8 token is emitted, in Feed and in Flush alike.
FlagsFrameAsStated ==
    /\ StepFrame(tk)
    /\ (Styled(tk) # Styled(pre) => HasKind(lastOut, "SGR"))
    /\ (InOSC8(tk) # InOSC8(pre) => HasKind(lastOut, "OSC8"))

\* C8 amended: as stated for Feed; a Flush never changes inOSC8, and changes
\* styled only when it emits a buffered incomplete CSI (kind CSI), whose
\* parameter bytes it applies to the SGR state.
FlagsFrame ==
    /\ StepFrame(tk)
    /\ (lastOp = "feed" =>
          /\ (Styled(tk) # Styled(pre) => HasKind(lastOut, "SGR"))
          /\ (InOSC8(tk) # InOSC8(pre) => HasKind(lastOut, "OSC8")))
    /\ (lastOp = "flush" =>
          /\ InOSC8(tk) = InOSC8(pre)
          /\ (Styled(tk) # Styled(pre) =>
                 /\ Len(lastOut) = 1
                 /\ lastOut[1].Kind = "CSI"
                 /\ lastOut[1].Styled = Styled(tk)
                 /\ pre.state = "CSI"))

\* C8 witness: a Flush has emitted a CSI token and styled has changed
FlagsFrameWitness ==
    /\ lastOp = "flush"
    /\ Len(lastOut) = 1
    /\ lastOut[1].Kind = "CSI"
    /\ Styled(tk) # Styled(pre)

\* the kind Flush is to give to what a tokenizer in phase ph holds
KindOfPhase(ph, prev) ==
    CASE ph = "Esc" -> "ESC"
      [] ph = "CSI" -> "CSI"
      [] ph = "OSC" -> "OSC"
      [] ph = "DCS" -> "DCS"
      [] ph = "STCandidate" -> IF prev = "DCS" THEN "DCS" ELSE "OSC"
      [] OTHER -> "Text"

OverflowClamp ==
    /\ Len(tk.buf) <= maxBufferSize
    /\ \A b \in TokBytes :
          LET s == FeedSwitch([t |-> tk, tokens |-> <<>>], b)
              a == FeedByte([t |-> tk, tokens |-> <<>>], b)
          IN /\ Len(a.t.buf) <= maxBufferSize
             /\ (Len(s.t.buf) > maxBufferSize /\ s.t.state # "Ground" =>
                   /\ a.tokens = <<Token("Other", Append(tk.buf, b))>>
                   /\ a.t.state = "Ground"
                   /\ a.t.buf = <<>>)
    /\ \A i \in 1..Len(emitted) :
          /\ Len(emitted[i].Data) <= maxBufferSize + 1
          /\ (emitted[i].Kind = "Other" =>
                 /\ Len(emitted[i].Data) = maxBufferSize + 1
                 /\ emitted[i].Data[1] = escByte)

\* C10 witness: a byte arrived with maxBufferSize bytes buffered inside a
\* sequence, and a token of kind Other came out
OverflowClampWitness ==
    /\ lastOp = "feed"
    /\ Len(pre.buf) = maxBufferSize
    /\ pre.state # "Ground"
    /\ Len(lastOut) = 1
    /\ lastOut[1].Kind = "Other"
    /\ tk.state = "Ground"

\* C25: between calls the accumulator is empty exactly in the Ground phase
\* and otherwise starts with ESC, so a Feed leaves no plain text behind and a
\* Flush returns no Text token
AccumulatorPhase ==
    /\ (tk.buf = <<>> <=> tk.state = "Ground")
    /\ (tk.buf # <<>> => tk.buf[1] = escByte)
    /\ (lastOp = "flush" => ~HasKind(lastOut, "Text"))

\* C25 witness: a Feed returned the text that preceded an unfinished sequence
\* and kept only the sequence
AccumulatorPhaseWitness ==
    /\ lastOp = "feed"
    /\ tk.state = "Esc"
    /\ tk.buf = <<escByte>>
    /\ Len(lastOut) > 0
    /\ lastOut[Len(lastOut)].Kind = "Text"

EscCount(d) == Cardinality({j \in 1..Len(d) : d[j] = escByte})

RECURSIVE EscOutsideText(_)
EscOutsideText(tokens) ==
    IF tokens = <<>> THEN 0
    ELSE (IF Head(tokens).Kind = "Text" THEN 0 ELSE EscCount(Head(tokens).Data))
         + EscOutsideText(Tail(tokens))

\* C26: no Text token holds an ESC byte; every ESC of the input is in the data
\* of a token of another kind or still in the accumulator
NoEscInText ==
    /\ \A i \in 1..Len(emitted) :
          emitted[i].Kind = "Text" => EscCount(emitted[i].Data) = 0
    /\ EscCount(fed) = EscOutsideText(emitted) + EscCount(tk.buf)

\* C26 witness: text on both sides of a sequence came out as two Text tokens
\* around the sequence's token
NoEscInTextWitness ==
    \E i \in 2..Len(emitted) - 1 :
        /\ emitted[i].Kind = "SGR"
        /\ emitted[i - 1].Kind = "Text"
        /\ emitted[i + 1].Kind = "Text"

(***************************************************************************)
(* Properties of the tokenizer on escape sequences                         *)
(***************************************************************************)
\* the codes of a parameter list from position i on that are codes in their
\* own right: the operands that follow a 38 or a 48 are left out
RECURSIVE ownCodes(_, _)
ownCodes(codes, i) ==
    IF i > Len(codes) THEN <<>>
    ELSE LET operands == IF codes[i] \in {38, 48} /\ i < Len(codes)
                         THEN (IF codes[i + 1] = 5 THEN 2
                               ELSE IF codes[i + 1] = 2 THEN 4 ELSE 0)
                         ELSE 0
         IN <<codes[i]>> \o ownCodes(codes, i + 1 + operands)

\* a CSI token made by Flush: nothing follows its parameter and intermediate bytes
IsFlushedCSI(tok) ==
    /\ tok.Kind = "CSI"
    /\ \A j \in 3..Len(tok.Data) :
          isCSIParamByte(tok.Data[j]) \/ isCSIIntermediateByte(tok.Data[j])

\* the codes, in order, of the SGR tokens among tokens[1..k], and of the
\* incomplete CSI tokens made by Flush when flushed is TRUE
RECURSIVE codesUpTo(_, _, _)
codesUpTo(tokens, k, flushed) ==
    IF k = 0 THEN <<>>
    ELSE codesUpTo(tokens, k - 1, flushed)
         \o (IF tokens[k].Kind = "SGR"
             THEN ownCodes(parseCSIParams(SubSeq(tokens[k].Data, 3,
                                                 Len(tokens[k].Data) - 1)), 1)
             ELSE IF flushed /\ IsFlushedCSI(tokens[k])
             THEN ownCodes(parseCSIParams(Tail2(tokens[k].Data)), 1)
             ELSE <<>>)

\* the code that clears what code sets
ClearedBy(code) ==
    CASE code \in {1, 2} -> 22
      [] code = 3 -> 23
      [] code = 4 -> 24
      [] code \in {5, 6} -> 25
      [] code = 7 -> 27
      [] code = 8 -> 28
      [] code = 9 -> 29

ForegroundCodes == (30..37) \cup (90..97) \cup {38}
BackgroundCodes == (40..47) \cup (100..107) \cup {48}

\* some code of cs in setters has no code of clearers after it
StillSet(cs, setters, clearers) ==
    \E k \in 1..Len(cs) :
        /\ cs[k] \in setters
        /\ \A j \in (k + 1)..Len(cs) : cs[j] \notin clearers

\* styled after the codes cs: an attribute, the foreground or the background
\* was set and neither reset nor cleared since
StyledAfter(cs) ==
    \/ \E a \in 1..9 : StillSet(cs, {a}, {0, ClearedBy(a)})
    \/ StillSet(cs, ForegroundCodes, {0, 39})
    \/ StillSet(cs, BackgroundCodes, {0, 49})

\* C27 as stated: the styled value of every SGR token is the one that follows
\* from the parameters of the SGR sequences up to and including it
SGRTrackingAsStated ==
    \A i \in 1..Len(emitted) :
        emitted[i].Kind = "SGR" =>
            emitted[i].Styled = StyledAfter(codesUpTo(emitted, i, FALSE))

\* C27: the styled value of every SGR token is the one that follows from the
\* parameters of the SGR sequences up to and including it and of the
\* incomplete CSI sequences Flush emitted before it, the operands of 38 and
\* 48 left out
SGRTracking ==
    \A i \in 1..Len(emitted) :
        emitted[i].Kind = "SGR" =>
            emitted[i].Styled = StyledAfter(codesUpTo(emitted, i, TRUE))

\* C27 witness: a 256-colour foreground whose operand 1 would be bold was
\* followed by a 39, and nothing is styled
SGRTrackingWitness ==
    \E i \in 1..Len(emitted) - 1 :
        /\ emitted[i].Data = CSISeq(<<"3", "8", ";", "5", ";", "1", "m">>)
        /\ emitted[i].Kind = "SGR"
        /\ emitted[i].Styled
        /\ emitted[i + 1].Data = CSISeq(<<"3", "9", "m">>)
        /\ emitted[i + 1].Kind = "SGR"
        /\ ~emitted[i + 1].Styled

\* the payload of a terminated OSC sequence: what lies between ESC ] and the
\* BEL or ESC \ that ends it, without one leading ';'
OSCPayload(data) ==
    LET body == SubSeq(data, 3, Len(data) - (IF data[Len(data)] = belByte THEN 1 ELSE 2))
    IN IF body # <<>> /\ Head(body) = chSemi THEN Tail(body) ELSE body

\* the positions of the payload's ';' after its first two bytes
LaterSemis(q) == {j \in 3..Len(q) : q[j] = chSemi}

IsOSC8Payload(q) ==
    /\ Len(q) >= 2
    /\ SubSeq(q, 1, 2) = <<chEight, chSemi>>
    /\ LaterSemis(q) # {}

\* the URI after the payload's second ';' is empty
EmptyURI(q) == \A j \in LaterSemis(q) : j = Len(q)

OSC8Tokens == {i \in 1..Len(emitted) : emitted[i].Kind = "OSC8"}

\* C28: Feed gives a terminated OSC sequence the kind OSC8 exactly when its
\* payload starts with 8; and has a second ';', and isEnd exactly when
\* nothing follows that ';'; inOSC8 is the negation of isEnd of the last
\* OSC8 token emitted, FALSE when there is none
OSC8Tracking ==
    /\ lastOp = "feed" =>
          \A i \in 1..Len(lastOut) :
              lastOut[i].Kind \in {"OSC", "OSC8"} =>
                  /\ lastOut[i].Kind = "OSC8" <=> IsOSC8Payload(OSCPayload(lastOut[i].Data))
                  /\ lastOut[i].IsEnd <=>
                        /\ IsOSC8Payload(OSCPayload(lastOut[i].Data))
                        /\ EmptyURI(OSCPayload(lastOut[i].Data))
    /\ tk.inOSC8 = (OSC8Tokens # {} /\ ~emitted[Only({ i \in OSC8Tokens :
                                             \A j \in OSC8Tokens : j <= i })].IsEnd)

\* C28 witness: an open whose payload begins with ';' and carries params was
\* opened again, then closed
OSC8TrackingWitness ==
    /\ Len(emitted) = 3
    /\ emitted[1].Data = OSCSeq(<<";", "8", ";", "i", ";", "u">>) \o stBytes
    /\ emitted[1].Kind = "OSC8" /\ ~emitted[1].IsEnd
    /\ emitted[2].Kind = "OSC8" /\ ~emitted[2].IsEnd
    /\ pre.inOSC8
    /\ emitted[3].Kind = "OSC8" /\ emitted[3].IsEnd
    /\ ~tk.inOSC8

\* C28 witness of the other half: a close arrived with no link open, and an
\* OSC that is no OSC 8 left the flag alone
OSC8TrackingCloseWitness ==
    /\ Len(emitted) = 2
    /\ emitted[1].Kind = "OSC8" /\ emitted[1].IsEnd
    /\ emitted[2].Data = OSCSeq(<<"8", ";", "u">>) \o <<belByte>>
    /\ emitted[2].Kind = "OSC"
    /\ ~tk.inOSC8

InString(t) == t.state \in {"OSC", "DCS", "STCandidate"}

\* the positions of the accumulator, past the introducer, where an ESC is
\* followed by a backslash
STPairs(buf) ==
    {j \in 3..Len(buf) - 1 : buf[j] = escByte /\ buf[j + 1] = chBackslash}

\* the number of ESC bytes that end at position j of buf with no other byte
\* between them
RECURSIVE EscRun(_, _)
EscRun(buf, j) ==
    IF j < 3 \/ buf[j] # escByte THEN 0 ELSE 1 + EscRun(buf, j - 1)

\* C29: inside an OSC or DCS/APC/PM string every ESC followed by a backslash
\* ends the string, whatever comes before that ESC, so a string still open
\* holds no such pair
StringEndsAtEveryST == InString(tk) => STPairs(tk.buf) = {}

\* what the code does for C29: the ESC of a pair ends the string only when
\* an even number of ESC bytes comes directly before it
StringEndsAtOddEsc ==
    InString(tk) => \A j \in STPairs(tk.buf) : EscRun(tk.buf, j) % 2 = 0

\* a string was left at an ESC and the next bytes ESC and backslash did not
\* end it
StringStaysOpen ==
    /\ tk.state = "OSC"
    /\ tk.buf = OSCSeq(<<"0", ";", "x">>) \o <<escByte>> \o stBytes

\* a byte that ends a CSI as malformed
IsOffending(b) == ~isCSIFinalByte(b) /\ ~isCSIParamByte(b) /\ ~isCSIIntermediateByte(b)

\* kind and data of the tokens that are not Text
RECURSIVE Sequences(_)
Sequences(tokens) ==
    IF tokens = <<>> THEN <<>>
    ELSE (IF Head(tokens).Kind = "Text" THEN <<>>
          ELSE <<[Kind |-> Head(tokens).Kind, Data |-> Head(tokens).Data]>>)
         \o Sequences(Tail(tokens))

\* the bytes the step's Feed was called with
FedNow == SubSeq(fed', Len(fed) + 1, Len(fed'))

\* a Feed whose first byte ends the pending CSI as malformed, the byte being
\* one of bytes
MalformedBy(bytes) ==
    /\ lastOp' = "feed"
    /\ tk.state = "CSI"
    /\ Len(fed') > Len(fed)
    /\ IsOffending(fed'[Len(fed) + 1])
    /\ fed'[Len(fed) + 1] \in bytes

\* the Feed emits the CSI up to the offending byte, and the sequences in
\* what it was fed come out as they do from a tokenizer in Ground
ResumesAtOffender ==
    /\ lastOut' # <<>>
    /\ lastOut'[1].Kind = "CSI"
    /\ lastOut'[1].Data = Append(tk.buf, FedNow[1])
    /\ Sequences(Tail(lastOut')) = Sequences(Feed(NewAnsiTokenizer, FedNow).tokens)

\* C30: after a byte that ends a CSI as malformed, ESC included, every
\* complete sequence that begins at or after that byte is tokenized as it is
\* when fed on its own
MalformedCSIResumes == [][MalformedBy(0..255) => ResumesAtOffender]_vars

\* what the code does for C30: the same for every offending byte but ESC
MalformedCSIResumesUnlessEsc ==
    [][MalformedBy((0..255) \ {escByte}) => ResumesAtOffender]_vars

\* a NUL ended a CSI and the SGR sequence after it was recognised
ResumedAfterNul ==
    /\ lastOp = "feed"
    /\ pre.state = "CSI"
    /\ Len(lastOut) = 2
    /\ lastOut[1].Kind = "CSI"
    /\ lastOut[1].Data = Append(pre.buf, chNul)
    /\ lastOut[2].Kind = "SGR"

(***************************************************************************)
(* Properties of the Linker                                                *)
(***************************************************************************)
InsertedPieces == {i \in 1..Len(sink) : sink[i].ins}
FileLinks == {i \in 1..Len(links) : links[i].kind = "file"}
SymbolLinks == {i \in 1..Len(links) : links[i].kind = "symbol"}

\* C2: what the Linker made up is OSC 8 open and close sequences only, and
\* with those taken out of the sink the bytes left, followed by what the
\* tokenizer still holds back, are the concatenation of the Write inputs in
\* order; after Flush nothing is held back and the bytes left are the input
RewriterPreservesBytes ==
    /\ \A i \in InsertedPieces :
          HasPrefix(sink[i].d, litOSC8) /\ HasSuffix(sink[i].d, st(lk))
    /\ CopiedBytes(sink) \o tk.buf = fed
    /\ lastOp = "flush" => CopiedBytes(sink) = fed

\* C2 witness: links were inserted, a Write left an unfinished CSI in the
\* tokenizer, and Flush has written it out
RewriterPreservesBytesWitness ==
    /\ lastOp = "flush"
    /\ InsertedPieces # {}
    /\ sink[Len(sink)] = [d |-> <<escByte, chLBracket>>, ins |-> FALSE]

\* C31: after every Write and every Flush the Linker's styled and inOSC8
\* equal its tokenizer's Styled() and InOSC8()
MirrorConsistent ==
    lastOp \in {"write", "flush"} =>
        /\ lk.styled = Styled(tk)
        /\ lk.inOSC8 = InOSC8(tk)

\* what the code does for C31: the mirrors agree until a Flush has run, and
\* the inOSC8 mirror agrees always
MirrorConsistentUntilFlush ==
    /\ nflush = 0 => lk.styled = Styled(tk)
    /\ lk.inOSC8 = InOSC8(tk)

\* the input bytes that written were not copied to the sink yet
HeldBack(written) == SubSeq(fed, Len(written) + 1, Len(fed))

\* h is the beginning of one escape sequence and nothing else: a tokenizer
\* fed h alone has no token to give, not even a Text token
IsIncompleteSequence(h) ==
    /\ h # <<>>
    /\ h[1] = escByte
    /\ Feed(NewAnsiTokenizer, h).tokens = <<>>

\* C23: when a Write has returned the sink holds, apart from what the Linker
\* inserted, all the input received so far but for at most the beginning of
\* one escape sequence at its very end; no plain text waits for more input
ImmediateOutput ==
    lastOp = "write" =>
        \A written \in {CopiedBytes(sink)} :
            /\ Len(written) <= Len(fed)
            /\ written = SubSeq(fed, 1, Len(written))
            /\ \A h \in {HeldBack(written)} : h = <<>> \/ IsIncompleteSequence(h)

\* C23 witness: a Write of styled text that ends inside a CSI has put the
\* text in the sink, without a newline, and kept the two bytes of the CSI
ImmediateOutputWitness ==
    /\ lastOp = "write"
    /\ HeldBack(CopiedBytes(sink)) = <<escByte, chLBracket>>
    /\ HasSuffix(CopiedBytes(sink), B(<<"F", "o", "o">>))

notTerminator(b) == b # belByte /\ b # escByte
notEsc(b) == b # escByte

\* the length of the OSC terminator (BEL or ESC \) at offset i, or 0
terminatorLenAt(d, i) ==
    IF HasLit(d, i, <<belByte>>) THEN 1
    ELSE IF HasLit(d, i, <<escByte, chBackslash>>) THEN 2
    ELSE 0

\* d from offset i on is a run of already linked spans: an OSC 8 open with a
\* non-empty URI, text without escapes, an OSC 8 close
RECURSIVE LinkedInput(_, _)
LinkedInput(d, i) ==
    IF i = Len(d) THEN TRUE
    ELSE /\ HasLit(d, i, litOSC8)
         /\ RunLen(d, i + 5, notTerminator) >= 1
         /\ LET uriEnd == i + 5 + RunLen(d, i + 5, notTerminator)
                textStart == uriEnd + terminatorLenAt(d, uriEnd)
                closeStart == textStart + RunLen(d, textStart, notEsc)
                closeEnd == closeStart + 5 + terminatorLenAt(d, closeStart + 5)
            IN /\ terminatorLenAt(d, uriEnd) > 0
               /\ HasLit(d, closeStart, litOSC8)
               /\ terminatorLenAt(d, closeStart + 5) > 0
               /\ LinkedInput(d, closeEnd)

\* C3: when the input so far is made of well-formed OSC 8 links with plain
\* text inside them, whatever the length of their URIs, the Linker has made
\* up nothing and the sink holds the input unchanged
IdempotentOnLinkedInput ==
    (fed # <<>> /\ LinkedInput(fed, 0)) =>
        (InsertedPieces = {} /\ SinkBytes(sink) = fed)

\* C3 for links whose open sequence fits maxBufferSize
IdempotentOnShortLinks ==
    (fed # <<>> /\ Len(fed) <= maxBufferSize /\ LinkedInput(fed, 0)) =>
        (InsertedPieces = {} /\ SinkBytes(sink) = fed)

\* C4: a file link the last Write emitted for a path candidate has a target
\* that existed at the time of that Write, or that FileIndex.Resolve returned
NoEmissionWithoutExistence ==
    \A i \in FileLinks : links[i].via = "index" \/ links[i].existed

\* C4 as the code keeps it: the target existed at the time of the Write, or
\* the Linker had probed it before and answers from its fileCache, or
\* FileIndex.Resolve returned it
NoEmissionWithoutProbe ==
    \A i \in FileLinks :
        \/ links[i].via = "index"
        \/ links[i].existed
        \/ links[i].cached /\ links[i].target \in DOMAIN lk.fileCache
           /\ lk.fileCache[links[i].target]

\* C4 witness: a file link answered from the fileCache for a target that no
\* longer exists
NoEmissionWithoutProbeWitness ==
    \E i \in FileLinks : links[i].via = "stat" /\ links[i].cached /\ ~links[i].existed

\* C35: no step changes or removes an entry of the Linker's fileCache, and a
\* Write links a path the cache already answered for by a probe only when the
\* cached answer was that it exists, whatever the filesystem holds by then
ExistenceMemoized ==
    [][/\ \A q \in DOMAIN lk.fileCache :
              q \in DOMAIN lk'.fileCache /\ lk'.fileCache[q] = lk.fileCache[q]
       /\ lastOp' = "write" /\ nops' = nops + 1 =>
              \A i \in 1..Len(links') :
                  (links'[i].kind = "file" /\ links'[i].via = "stat"
                   /\ links'[i].target \in DOMAIN lk.fileCache)
                      => lk.fileCache[links'[i].target] /\ links'[i].cached]_vars

\* C35 witness: a path that was probed while its file was missing is written
\* again after the file was created, and is not linked
ExistenceMemoizedWitness ==
    /\ lastOp = "write"
    /\ fed = B(<<"f", ".", "g", "o">>) \o B(<<"f", ".", "g", "o">>)
    /\ links = <<>>
    /\ \E q \in DOMAIN lk.fileCache : ~lk.fileCache[q] /\ StatOK(fs, q)

\* a path that was probed while its file existed is linked after the file
\* was deleted
ExistenceMemoizedStaleWitness ==
    /\ lastOp = "write"
    /\ fed = B(<<"f", ".", "g", "o">>) \o B(<<"f", ".", "g", "o">>)
    /\ Len(links) = 1
    /\ links[1].cached /\ ~StatOK(fs, links[1].target) /\ lk.fileCache[links[1].target]

\* C5: every symbol link the last Write emitted is for text at which the
\* tokenizer's SGR state was styled
SymbolLinkingGate ==
    \A i \in SymbolLinks : links[i].tkStyled

\* C5 while Flush has not been called
SymbolLinkingGateBeforeFlush ==
    nflush = 0 => \A i \in SymbolLinks : links[i].tkStyled

\* C6: a Linker whose scheme is file emits no symbol link
FileSchemeNoSymbolLinks ==
    lk.scheme = schemeFile => SymbolLinks = {}

\* what the fileCache holds for a path
Probed(path, answer) == path \in DOMAIN lk.fileCache /\ lk.fileCache[path] = answer

\* C18: a file link's target is the path as written when that exists, else
\* the path without a leading a/ or b/ when that exists, else what
\* FileIndex.Resolve returns, asked only when resolveBasename is enabled; the
\* index is not consulted when the path as written exists
ResolutionOrder ==
    \A i \in FileLinks :
        LET e == links[i]
        IN \/ /\ e.via = "stat"
              /\ e.target = e.lit
              /\ e.litExisted
           \/ /\ e.via = "stat"
              /\ stripGitDiffPrefix(e.asked).ok
              /\ e.target = e.strip
              /\ ~e.litExisted
              /\ e.stripExisted
           \/ /\ e.via = "index"
              /\ lk.resolveBasename
              /\ ~e.litExisted
              /\ stripGitDiffPrefix(e.asked).ok => ~e.stripExisted
              /\ e.target = Resolve(idx, e.asked)

\* C18 as the code keeps it: the same order, with a path taken to exist or
\* not as its first probe by this Linker answered
ResolutionOrderAsProbed ==
    \A i \in FileLinks :
        LET e == links[i]
        IN \/ /\ e.via = "stat"
              /\ e.target = e.lit
              /\ Probed(e.lit, TRUE)
           \/ /\ e.via = "stat"
              /\ stripGitDiffPrefix(e.asked).ok
              /\ e.target = e.strip
              /\ Probed(e.lit, FALSE)
              /\ Probed(e.strip, TRUE)
           \/ /\ e.via = "index"
              /\ lk.resolveBasename
              /\ Probed(e.lit, FALSE)
              /\ stripGitDiffPrefix(e.asked).ok => Probed(e.strip, FALSE)
              /\ e.target = Resolve(idx, e.asked)
              /\ e.target # <<>>

\* C18 witness: the index supplied the target of a path that existed as
\* written, because the first probe of it had failed
ResolutionOrderAsProbedWitness ==
    \E i \in FileLinks :
        /\ links[i].via = "index"
        /\ links[i].litExisted
        /\ Probed(links[i].lit, FALSE)

\* the location suffix an editor URL carries: a line range :L-L2 becomes
\* :L:1, and :L and :L:C stay
EditorSuffix(loc) ==
    LET dash == {k \in 1..Len(loc) : loc[k] = 45}
    IN IF dash = {} THEN loc
       ELSE SubSeq(loc, 1, MinOf(dash) - 1) \o <<58, 49>>

\* the URL of a file link as the scheme prescribes
SchemeURL(e) ==
    IF lk.scheme = schemeFile
    THEN B(<<"f", "i", "l", "e", ":", "/", "/">>) \o Hostname \o e.target
    ELSE lk.scheme \o B(<<":", "/", "/", "f", "i", "l", "e">>) \o e.target \o EditorSuffix(e.loc)

\* the sink holds, one after the other, an OSC 8 open for url, text, and an
\* OSC 8 close
Linked(url, text) ==
    \E k \in 1..(Len(sink) - 2) :
        /\ sink[k] = [d |-> litOSC8 \o url \o st(lk), ins |-> TRUE]
        /\ sink[k + 1] = [d |-> text, ins |-> FALSE]
        /\ sink[k + 2] = [d |-> litOSC8 \o st(lk), ins |-> TRUE]

\* C19: with scheme file the URL of a file link is file://<host><abs-path>
\* and carries no location suffix; with any other scheme it is
\* <scheme>://file<abs-path> followed by the suffix, a range :L-L2 turned
\* into :L:1; the display text is the matched path and the suffix as written
SchemeFormatting ==
    \A i \in FileLinks :
        /\ links[i].display = links[i].asked \o links[i].loc
        /\ Linked(SchemeURL(links[i]), links[i].display)

\* C19 witness: an editor scheme has linked a path with a line range, one
\* with a line, and one with a line and a column
SchemeFormattingWitness ==
    /\ lk.scheme = schemeCursor
    /\ \E i \in FileLinks : links[i].loc = B(<<":", "3", "-", "4">>)
    /\ \E i \in FileLinks : links[i].loc = B(<<":", "7">>)
    /\ Linked(schemeCursor \o B(<<":", "/", "/", "f", "i", "l", "e">>) \o FileF
              \o B(<<":", "1", ":", "2">>),
              B(<<".", "/", "l", ".", "g", "o", ":", "1", ":", "2">>))

\* C19 witness for the file scheme: a suffix was matched and left out
SchemeFormattingFileWitness ==
    /\ lk.scheme = schemeFile
    /\ \E i \in FileLinks : links[i].loc = B(<<":", "3", "-", "4">>)

(***************************************************************************)
(* FileIndex as a process.  Start runs in its own goroutine and hands over *)
(* to the watcher loop; meanwhile files come and go, the context may be    *)
(* cancelled, and callers use Wait and Resolve.  idx holds ready and the   *)
(* map, fs the regular files; fi holds the rest:                           *)
(*   pc          where Start or the watcher loop stands                    *)
(*   todo        the paths the scan's walk has still to report             *)
(*   ignoredDirs what loadGitIgnoredDirs returned                          *)
(*   cancelled   ctx.Done() is closed                                      *)
(*   dirs        the directories that exist                                *)
(*   watches     the directories the watcher watches                       *)
(*   events      watcher.Events                                            *)
(*   fsops       how many times the tree was changed                       *)
(*   atScan      the files present when the scan began and never removed   *)
(*   late        the files created once ready was set and the watcher      *)
(*               existed, before any cancellation                          *)
(*   gone        the paths whose remove event was handled and that were    *)
(*               not created since                                         *)
(*   res         the result of the call the last step made, if it made one *)
(***************************************************************************)
MaxFsOps == 3

excludeSet == {B(<<"n">>)}
GitIgnored == {dirIgn}
nameF == B(<<"f">>)

\* filepath.Dir of an absolute path
DirOf(path) ==
    Only({ IF MaxOf(ks) = 0 THEN <<47>> ELSE Slice(path, 0, MaxOf(ks)) :
           ks \in {{k \in 0..(Len(path) - 1) : At(path, k) = 47}} })

isIgnoredDir(ignoredDirs, path) == Base(path) \in excludeSet \/ path \in ignoredDirs

\* loadGitIgnoredDirs: nil when git fails, as it does under a cancelled context
loadGitIgnoredDirs(ok) == IF ok THEN GitIgnored ELSE {}

\* path is root or lies below it
Under(root, path) == path = root \/ HasPrefix(path, root \o <<47>>)

\* symwalk.WalkDir(root) reaches path: every directory from root down to
\* path's parent exists and the callback did not answer SkipDir for it
Entered(ignoredDirs, dirs, root, path) ==
    /\ Under(root, path)
    /\ \A a \in TreeDirs :
          Under(root, a) /\ HasPrefix(path, a \o <<47>>)
              => a \in dirs /\ ~isIgnoredDir(ignoredDirs, a)

\* the entries ReadDir finds in a directory
entriesOf(files, dirs, dir) ==
    SelectSeq(TreeOrder, LAMBDA q : q # Cwd /\ DirOf(q) = dir /\ q \in files \cup dirs)

\* watchDirRecursive(root): the directories it adds to the watcher
watchDirRecursive(ignoredDirs, dirs, root) ==
    {d \in dirs : Entered(ignoredDirs, dirs, root, d) /\ ~isIgnoredDir(ignoredDirs, d)}

addFile(entries, path) == Append(entries, [path |-> path, mtime |-> Mtime[path]])

\* indexDir(dir): addFile for every regular file its walk reports
indexDir(entries, ignoredDirs, dirs, files, dir) ==
    entries \o
    Only({ [i \in 1..Len(seen) |-> [path |-> seen[i], mtime |-> Mtime[seen[i]]]] :
           seen \in {SelectSeq(TreeOrder,
                               LAMBDA q : q \in files
                                          /\ Entered(ignoredDirs, dirs, dir, q))} })

\* indexDir that walks into every directory
indexDirAll(entries, ignoredDirs, dirs, files, dir) ==
    entries \o
    Only({ [i \in 1..Len(seen) |-> [path |-> seen[i], mtime |-> Mtime[seen[i]]]] :
           seen \in {SelectSeq(TreeOrder, LAMBDA q : q \in files /\ Under(dir, q))} })

\* handleRemove: the first entry with this path leaves the list
handleRemove(entries, path) ==
    Only({ IF ks = {} THEN entries
           ELSE SubSeq(entries, 1, MinOf(ks) - 1)
                \o SubSeq(entries, MinOf(ks) + 1, Len(entries)) :
           ks \in {{i \in 1..Len(entries) : entries[i].path = path}} })

\* the callback of buildFromFilesystem without the isIgnoredDir test
scanCallbackNoSkip(f, ix, files) ==
    LET path == Head(f.todo)
    IN IF f.cancelled THEN [todo |-> <<>>, entries |-> ix.files]
       ELSE IF path \in TreeDirs
       THEN [todo |-> entriesOf(files, f.dirs, path) \o Tail(f.todo), entries |-> ix.files]
       ELSE [todo |-> Tail(f.todo),
             entries |-> IF path \in files THEN addFile(ix.files, path) ELSE ix.files]

\* the callback of buildFromFilesystem on the path the walk reports next:
\* [todo, entries]
scanCallback(f, ix, files) ==
    LET path == Head(f.todo)
    IN IF f.cancelled THEN [todo |-> <<>>, entries |-> ix.files]
       ELSE IF path \in TreeDirs
       THEN [todo |-> IF isIgnoredDir(f.ignoredDirs, path) \/ path \in f.unreadable
                      THEN Tail(f.todo)
                      ELSE entriesOf(files, f.dirs, path) \o Tail(f.todo),
             entries |-> ix.files]
       ELSE [todo |-> Tail(f.todo),
             entries |-> IF path \in files THEN addFile(ix.files, path) ELSE ix.files]

NoCall == [op |-> "none"]

NewProcess ==
    [pc |-> "new", todo |-> <<>>, ignoredDirs |-> {}, cancelled |-> FALSE,
     dirs |-> StaticDirs, watches |-> {}, events |-> <<>>, pending |-> <<>>,
     fsops |-> 0, atScan |-> {}, late |-> {}, gone |-> {}, res |-> NoCall,
     closes |-> 0, wcloses |-> 0, unreadable |-> {}]

\* the paths a caller asks the index about
Queries ==
    { nameF, B(<<"s", "/", "f">>), B(<<"d", "/", "f">>), B(<<"x", "/", "f">>), B(<<"g">>) }

\* the paths the Linker matches: one that may exist as written and one that
\* does not
LinkQueries == { nameF, B(<<"x", "/", "f">>) }

IdxLinker ==
    NewLinker([scheme |-> <<>>, domains |-> <<>>, resolveBasename |-> TRUE,
               terminator |-> "", symbolLinks |-> FALSE])

IdxInit ==
    /\ tk = NewAnsiTokenizer
    /\ pre = NewAnsiTokenizer
    /\ fed = <<>>
    /\ emitted = <<>>
    /\ lastOut = <<>>
    /\ lastOp = "init"
    /\ nops = 0
    /\ nflush = 0
    /\ lk = IdxLinker
    /\ sink = <<>>
    /\ links = <<>>
    /\ wk = Idle
    /\ fs \in {StaticFiles, StaticFiles \cup {fileTop}}
    /\ idx = NewFileIndex
    /\ fi = NewProcess
    /\ pt = Idle
    /\ cut = <<>>
    /\ rp = Idle

idxFrame == <<tokVars, lk, sink, links, wk, pt, cut, rp>>

\* Start: idx.ignoredDirs = loadGitIgnoredDirs(ctx, idx.cwd), and the walk of
\* buildFromFilesystem begins at cwd
StartLoad ==
    /\ fi.pc = "new"
    /\ \E ok \in (IF fi.cancelled THEN {FALSE} ELSE BOOLEAN) :
          fi' = [fi EXCEPT !.pc = "scan", !.ignoredDirs = loadGitIgnoredDirs(ok),
                           !.todo = <<Cwd>>, !.atScan = fs, !.res = NoCall]
    /\ UNCHANGED <<idxFrame, fs, idx>>

\* buildFromFilesystem: the walk reports one path to the callback
ScanCallback ==
    /\ fi.pc = "scan"
    /\ fi.todo # <<>>
    /\ \E r \in {scanCallback(fi, idx, fs)} :
          /\ fi' = [fi EXCEPT !.todo = r.todo, !.res = NoCall]
          /\ idx' = [idx EXCEPT !.files = r.entries]
    /\ UNCHANGED <<idxFrame, fs>>

\* mutant of StartReady: the channel is closed while ready is still false
StartReadyCloseFirst ==
    /\ fi.pc = "scan"
    /\ fi.todo = <<>>
    /\ fi' = [fi EXCEPT !.pc = "readySet", !.closes = @ + 1, !.res = NoCall]
    /\ UNCHANGED <<idxFrame, fs, idx>>

\* Start after buildFromFilesystem returned: ready = true with the lock held
StartReady ==
    /\ fi.pc = "scan"
    /\ fi.todo = <<>>
    /\ idx' = [idx EXCEPT !.ready = TRUE]
    /\ fi' = [fi EXCEPT !.pc = "readySet", !.res = NoCall]
    /\ UNCHANGED <<idxFrame, fs>>

\* mutant of CloseReady: Start returns without closing the channel when the
\* context is cancelled
CloseReadyUnlessCancelled ==
    /\ fi.pc = "readySet"
    /\ fi' = [fi EXCEPT !.pc = "ready", !.closes = IF fi.cancelled THEN @ ELSE @ + 1,
                        !.res = NoCall]
    /\ UNCHANGED <<idxFrame, fs, idx>>

\* Start: close(idx.readyChan)
CloseReady ==
    /\ fi.pc = "readySet"
    /\ fi' = [fi EXCEPT !.pc = "ready", !.closes = @ + 1, !.res = NoCall]
    /\ UNCHANGED <<idxFrame, fs, idx>>

\* startWatcher: fsnotify.NewWatcher succeeds or fails
StartWatcher ==
    /\ fi.pc = "ready"
    /\ \E ok \in BOOLEAN :
          fi' = [fi EXCEPT !.pc = IF ok THEN "watcher" ELSE "nowatcher", !.res = NoCall]
    /\ UNCHANGED <<idxFrame, fs, idx>>

\* mutant of WatchDirs: the loop is not started under a cancelled context
WatchDirsUnlessCancelled ==
    /\ fi.pc = "watcher"
    /\ fi' = [fi EXCEPT !.pc = IF fi.cancelled THEN "nowatcher" ELSE "loop",
                        !.res = NoCall,
                        !.watches = watchDirRecursive(fi.ignoredDirs, fi.dirs, Cwd)]
    /\ UNCHANGED <<idxFrame, fs, idx>>

\* startWatcher: watchDirRecursive(idx.cwd), then go watchLoop
WatchDirs ==
    /\ fi.pc = "watcher"
    /\ fi' = [fi EXCEPT !.pc = "loop", !.res = NoCall,
                        !.watches = watchDirRecursive(fi.ignoredDirs, fi.dirs, Cwd)]
    /\ UNCHANGED <<idxFrame, fs, idx>>

\* watchLoop receives an event: handleEvent.  For a new directory
\* handleCreate returns after watchDirRecursive and indexDir; the step ends
\* between the two
HandleEvent ==
    /\ fi.pc = "loop"
    /\ fi.events # <<>>
    /\ LET ev == Head(fi.events)
           f == [fi EXCEPT !.events = Tail(fi.events), !.res = NoCall]
       IN IF isIgnoredDir(fi.ignoredDirs, ev.name)
          THEN fi' = f /\ UNCHANGED idx
          ELSE IF ev.op = "create"
          THEN IF ev.name \in fi.dirs
               THEN /\ fi' = [f EXCEPT !.pc = "indexDir", !.pending = ev.name,
                                       !.watches = fi.watches \cup
                                           watchDirRecursive(fi.ignoredDirs, fi.dirs, ev.name)]
                    /\ UNCHANGED idx
               ELSE IF ev.name \in fs
               THEN fi' = f /\ idx' = [idx EXCEPT !.files = addFile(idx.files, ev.name)]
               ELSE fi' = f /\ UNCHANGED idx
          ELSE /\ idx' = [idx EXCEPT !.files = handleRemove(idx.files, ev.name)]
               /\ fi' = [f EXCEPT !.gone =
                            IF \E i \in 1..Len(f.events) :
                                  f.events[i] = [op |-> "create", name |-> ev.name]
                            THEN fi.gone ELSE fi.gone \cup {ev.name}]
    /\ UNCHANGED <<idxFrame, fs>>

\* handleCreate for a new directory, second half: indexDir(path)
IndexNewDir ==
    /\ fi.pc = "indexDir"
    /\ idx' = [idx EXCEPT !.files =
                  indexDir(idx.files, fi.ignoredDirs, fi.dirs, fs, fi.pending)]
    /\ fi' = [fi EXCEPT !.pc = "loop", !.pending = <<>>, !.res = NoCall]
    /\ UNCHANGED <<idxFrame, fs>>

\* watchLoop receives from ctx.Done(): it returns and the watcher is closed
WatchLoopDone ==
    /\ fi.pc = "loop"
    /\ fi.cancelled
    /\ fi' = [fi EXCEPT !.pc = "closed", !.watches = {}, !.events = <<>>, !.res = NoCall,
                        !.wcloses = @ + 1]
    /\ UNCHANGED <<idxFrame, fs, idx>>

\* cancel() of the context Start and Wait were given
Cancel ==
    /\ ~fi.cancelled
    /\ fi' = [fi EXCEPT !.cancelled = TRUE, !.res = NoCall]
    /\ UNCHANGED <<idxFrame, fs, idx>>

\* what a change of path adds to watcher.Events
notify(f, op, path) ==
    IF DirOf(path) \in f.watches
    THEN Append(f.events, [op |-> op, name |-> path]) ELSE f.events

\* a regular file is created
CreateFile ==
    \E p \in VolatileFiles \ fs :
        /\ fi.fsops < MaxFsOps
        /\ DirOf(p) \in fi.dirs
        /\ fs' = fs \cup {p}
        /\ fi' = [fi EXCEPT !.fsops = fi.fsops + 1, !.res = NoCall,
                            !.events = notify(fi, "create", p),
                            !.gone = fi.gone \ {p},
                            !.late = IF idx.ready /\ ~fi.cancelled
                                        /\ fi.pc \in {"watcher", "loop", "indexDir"}
                                     THEN fi.late \cup {p} ELSE fi.late]
        /\ UNCHANGED <<idxFrame, idx>>

\* a regular file is removed
RemoveFile ==
    \E p \in VolatileFiles \cap fs :
        /\ fi.fsops < MaxFsOps
        /\ fs' = fs \ {p}
        /\ fi' = [fi EXCEPT !.fsops = fi.fsops + 1, !.res = NoCall,
                            !.events = notify(fi, "remove", p),
                            !.atScan = fi.atScan \ {p},
                            !.late = fi.late \ {p}]
        /\ UNCHANGED <<idxFrame, idx>>

\* a directory that holds an excluded directory with a file in it is moved
\* into cwd
MakeDir ==
    /\ fi.fsops < MaxFsOps
    /\ dirNew \notin fi.dirs
    /\ fs' = fs \cup {fileNewExcl}
    /\ fi' = [fi EXCEPT !.fsops = fi.fsops + 1, !.res = NoCall,
                        !.dirs = fi.dirs \cup {dirNew, dirNewExcl},
                        !.events = notify(fi, "create", dirNew)]
    /\ UNCHANGED <<idxFrame, idx>>

\* Wait(ctx) returns: select takes any case that can proceed
WaitCall ==
    /\ fi.cancelled \/ fi.closes > 0
    /\ \E err \in {e \in BOOLEAN : IF e THEN fi.cancelled ELSE fi.closes > 0} :
          fi' = [fi EXCEPT !.res = [op |-> "wait", cancelled |-> fi.cancelled, err |-> err]]
    /\ UNCHANGED <<idxFrame, fs, idx>>

\* Resolve(path)
ResolveCall ==
    \E q \in Queries :
        /\ fi' = [fi EXCEPT !.res = [op |-> "resolve", path |-> q, ready |-> idx.ready,
                                     result |-> Resolve(idx, q)]]
        /\ UNCHANGED <<idxFrame, fs, idx>>

\* the Linker's wrapFilePath on a path it matched, with an empty fileCache
LinkCall ==
    \E q \in LinkQueries :
        /\ \E r \in {wrapFilePath(lk, lk.fileCache, fs, idx, <<>>, q, <<>>, q, FALSE)} :
              fi' = [fi EXCEPT !.res = [op |-> "link", path |-> q, ok |-> r.ok,
                                        log |-> r.log]]
        /\ UNCHANGED <<idxFrame, fs, idx>>

\* the index and its surroundings without the callers
IdxRun ==
    \/ StartLoad \/ ScanCallback \/ StartReady \/ CloseReady \/ StartWatcher \/ WatchDirs
    \/ HandleEvent \/ IndexNewDir \/ WatchLoopDone \/ Cancel
    \/ CreateFile \/ RemoveFile \/ MakeDir

IdxNext == IdxRun \/ WaitCall \/ ResolveCall \/ LinkCall

SpecIdx == IdxInit /\ [][IdxNext]_vars

\* the goroutines of Start and of the watcher loop are scheduled again and
\* again: a step of theirs that stays possible is taken
IdxProgress ==
    \/ StartLoad \/ ScanCallback \/ StartReady \/ CloseReady \/ StartWatcher \/ WatchDirs
    \/ HandleEvent \/ IndexNewDir

SpecIdxFair == IdxInit /\ [][IdxRun]_vars /\ WF_vars(IdxProgress)

EntryPaths == {idx.files[i].path : i \in 1..Len(idx.files)}

\* the same on trees with a directory whose entries cannot be read
StartInit ==
    /\ tk = NewAnsiTokenizer
    /\ pre = NewAnsiTokenizer
    /\ fed = <<>>
    /\ emitted = <<>>
    /\ lastOut = <<>>
    /\ lastOp = "init"
    /\ nops = 0
    /\ nflush = 0
    /\ lk = IdxLinker
    /\ sink = <<>>
    /\ links = <<>>
    /\ wk = Idle
    /\ fs \in {StaticFiles, StaticFiles \cup {fileTop}}
    /\ idx = NewFileIndex
    /\ fi \in {[NewProcess EXCEPT !.unreadable = u] : u \in {{}, {dirSub}, {Cwd}}}
    /\ pt = Idle
    /\ cut = <<>>
    /\ rp = Idle

\* the watcher loop's select takes the Done case when it stays ready
SpecStart ==
    StartInit /\ [][IdxRun]_vars /\ WF_vars(IdxProgress) /\ WF_vars(WatchLoopDone)

\* a watcher exists and is not closed
WatcherOpen == fi.pc \in {"watcher", "loop", "indexDir"}

\* C38: the readiness channel is closed at most once, and once Start has
\* been called it is eventually closed, with ready true, for good
ReadinessReached ==
    /\ [](fi.closes <= 1)
    /\ (fi.pc # "new") ~> [](fi.closes = 1 /\ idx.ready)

\* C38 witness: readiness was signaled though git failed, a directory could
\* not be read and no watcher could be created
ReadinessReachedWitness ==
    /\ fi.closes = 1
    /\ fi.pc = "nowatcher"
    /\ fi.ignoredDirs = {}
    /\ fi.unreadable = {dirSub}
    /\ fileSub \notin EntryPaths

\* readiness was signaled after cancel ended the scan before it reported a
\* file
ReadinessReachedCancelledWitness ==
    /\ fi.closes = 1
    /\ fi.cancelled
    /\ fi.unreadable = {}
    /\ EntryPaths = {}

\* C39: the watcher is closed at most once, and a watcher that exists when
\* cancel has fired is eventually closed by the loop that exits
WatcherShutdown ==
    /\ [](fi.wcloses <= 1)
    /\ (WatcherOpen /\ fi.cancelled) ~> (fi.pc = "closed" /\ fi.wcloses = 1)

\* C39 witness: cancel ended the scan before it reported a file; the watcher
\* was created all the same and the loop closed it
WatcherShutdownWitness ==
    /\ fi.pc = "closed"
    /\ fi.wcloses = 1
    /\ EntryPaths = {}

\* the loop exited with the create event of a file unhandled
WatcherShutdownPendingWitness ==
    /\ fi.pc = "closed"
    /\ fi.wcloses = 1
    /\ \E p \in fi.late : p \in fs /\ p \notin EntryPaths

\* C11: while ready is false Resolve returns "" for every path, also when the
\* scan has already inserted entries for its basename, and the rewriter
\* links no path that does not exist as written
NotReadyResolvesNothing ==
    ~idx.ready =>
        /\ fi.res.op = "resolve" => fi.res.result = <<>>
        /\ fi.res.op = "link" /\ ~StatOK(fs, resolvePath(fs, fi.res.path)) => ~fi.res.ok

NotReadyResolvesNothingWitness ==
    /\ ~idx.ready
    /\ fi.res.op = "resolve"
    /\ fi.res.result = <<>>
    /\ \E p \in EntryPaths : Base(p) = Base(fi.res.path)

\* C12: whenever ready is true the map has an entry for every regular file
\* that was under cwd when the scan began, was not removed since, and lies in
\* no excluded or git-ignored directory
ReadyMeansComplete ==
    idx.ready =>
        \A p \in fi.atScan : Entered(fi.ignoredDirs, fi.dirs, Cwd, p) => p \in EntryPaths

\* the same for the runs in which the context is never cancelled
ReadyMeansCompleteUncancelled ==
    idx.ready /\ ~fi.cancelled =>
        \A p \in fi.atScan : Entered(fi.ignoredDirs, fi.dirs, Cwd, p) => p \in EntryPaths

\* C37: ready does not go back to false, the channel is closed only when
\* ready is true, a Wait returns nil only when ready is true, and a Resolve
\* call made when ready is true reads it as true
ReadinessOrdering ==
    [][/\ idx.ready => idx'.ready
       /\ fi'.closes > 0 => idx'.ready
       /\ (fi'.res.op = "wait" /\ ~fi'.res.err) => idx'.ready
       /\ (fi'.res.op = "resolve" /\ fi'.res # fi.res /\ idx.ready) => fi'.res.ready]_vars

\* C37 witness: a Wait call returned nil after the channel was closed
ReadinessOrderingWitness ==
    /\ fi.closes = 1
    /\ idx.ready
    /\ fi.res.op = "wait"
    /\ ~fi.res.err

\* a Resolve call made after the channel was closed found the index ready
ReadinessOrderingResolveWitness ==
    /\ fi.closes = 1
    /\ fi.res.op = "resolve"
    /\ fi.res.ready
    /\ fi.res.result # <<>>

\* a Resolve call made when ready was true and the channel not closed yet
ReadinessOrderingBetweenWitness ==
    /\ idx.ready
    /\ fi.closes = 0
    /\ fi.res.op = "resolve"
    /\ fi.res.ready

\* C13: a Wait call made after cancel has fired returns a non-nil error
WaitAfterCancelFails ==
    fi.res.op = "wait" /\ fi.res.cancelled => fi.res.err

\* a Wait call returns an error only after cancel, nil only after readiness
WaitReturnsForACause ==
    fi.res.op = "wait" => IF fi.res.err THEN fi.res.cancelled ELSE idx.ready

\* C14: a regular file created in a directory that is not excluded, once
\* ready is set and the watcher exists and cancel has not fired, is
\* eventually in the map unless it is removed or cancel fires
CreatedIsEventuallyIndexed ==
    \A p \in VolatileFiles :
        [](p \in fi.late => <>(p \in EntryPaths \/ p \notin fi.late \/ fi.cancelled))

\* C15: once the watcher has handled a remove event for a path, and until the
\* path is created again, the map has no entry with that path
HandledRemoveLeavesNoEntry ==
    \A p \in fi.gone : p \notin EntryPaths

\* C16: no entry's path passes through a directory at or below cwd whose
\* basename is excluded or whose path is in the git-ignored set
ExclusionInvariant ==
    \A p \in EntryPaths :
        \A d \in TreeDirs :
            Under(Cwd, d) /\ HasPrefix(p, d \o <<47>>) => ~isIgnoredDir(fi.ignoredDirs, d)

ExclusionInvariantWitness ==
    /\ idx.ready
    /\ fi.pc = "loop"
    /\ fi.ignoredDirs = GitIgnored
    /\ {fileExcl, fileIgn, fileNewExcl} \subseteq fs
    /\ {fileSub, fileNew} \subseteq EntryPaths

\* the entries Resolve is left with for a path: those under its basename,
\* narrowed to the ones ending in "/"+path when it has a slash and some do
Remaining(entries, path) ==
    LET cands == {i \in 1..Len(entries) : Base(entries[i].path) = Base(path)}
        filt == {i \in cands : HasSuffix(entries[i].path, <<47>> \o path)}
    IN IF (\E k \in 1..Len(path) : path[k] = 47) /\ filt # {} THEN filt ELSE cands

\* C17: on a ready index Resolve returns "" when no entry remains, and else
\* the path of a remaining entry at least as new as every other one, the
\* earliest inserted of these, so the same one on every call
ResolveSelection ==
    fi.res.op = "resolve" /\ idx.ready =>
        LET rem == Remaining(idx.files, fi.res.path)
        IN IF rem = {} THEN fi.res.result = <<>>
           ELSE \E i \in rem :
                   /\ fi.res.result = idx.files[i].path
                   /\ \A j \in rem : idx.files[i].mtime >= idx.files[j].mtime
                   /\ \A j \in rem : j < i => idx.files[j].mtime < idx.files[i].mtime

ResolveSelectionWitness ==
    /\ idx.ready
    /\ fi.res.op = "resolve"
    /\ fi.res.path = B(<<"s", "/", "f">>)
    /\ fi.res.result = fileSub
    /\ {fileTop, fileNew} \subseteq EntryPaths

\* a newest entry wins over the entries with the same basename
ResolveNewestWitness ==
    /\ idx.ready
    /\ fi.res.op = "resolve"
    /\ fi.res.path = B(<<"x", "/", "f">>)
    /\ fi.res.result = fileNew
    /\ {fileTop, fileSub} \subseteq EntryPaths

(***************************************************************************)
(* symwalk.WalkDir as a process.  A path is a sequence of one-byte names;   *)
(* a tree maps the real path of each entry to its type and, for a symlink,  *)
(* the real path it points to.  wk holds:                                   *)
(*   pc        "idle", "walking" or "done"                                  *)
(*   tree      the tree walked                                              *)
(*   stack     the filepath.WalkDir calls in progress, innermost first,     *)
(*             each [root, real, todo]: the path walkDir was given, its     *)
(*             real path, and the real paths still to be reported           *)
(*   visited   the visited map                                              *)
(*   reported  the display paths the callback was called with               *)
(*   skipped   the display paths of the symlinks walkDir returned from      *)
(*             because their real path was visited                          *)
(***************************************************************************)
Dir == [type |-> "dir", target |-> <<>>]
File == [type |-> "file", target |-> <<>>]
LinkTo(target) == [type |-> "link", target |-> target]

\* two directories that link to each other
LoopTree ==
    (<<>> :> Dir) @@ (B(<<"a">>) :> Dir) @@ (B(<<"a", "f">>) :> File)
    @@ (B(<<"a", "l">>) :> LinkTo(B(<<"b">>)))
    @@ (B(<<"b">>) :> Dir) @@ (B(<<"b", "f">>) :> File)
    @@ (B(<<"b", "l">>) :> LinkTo(B(<<"a">>)))

\* a link to an ancestor followed by a file, a link to a file, a link to
\* nothing, and a link s to the directory a
UpTree ==
    (<<>> :> Dir) @@ (B(<<"a">>) :> Dir) @@ (B(<<"a", "f">>) :> File)
    @@ (B(<<"a", "u">>) :> LinkTo(<<>>))
    @@ (B(<<"a", "z">>) :> File)
    @@ (B(<<"d">>) :> LinkTo(B(<<"x">>)))
    @@ (B(<<"g">>) :> LinkTo(B(<<"a", "f">>)))
    @@ (B(<<"s">>) :> LinkTo(B(<<"a">>)))

Trees == {LoopTree, UpTree}

\* the paths WalkDir is called with
WalkRoots == {<<>>, B(<<"s">>), B(<<"x">>)}

CallbackResults == {"nil", "SkipDir", "SkipAll", "err"}

\* filepath.EvalSymlinks from the real path reached so far: [ok, path]
RECURSIVE evalFrom(_, _, _)
evalFrom(tree, real, rest) ==
    IF rest = <<>> THEN [ok |-> TRUE, path |-> real]
    ELSE LET next == Append(real, Head(rest))
         IN IF next \notin DOMAIN tree THEN [ok |-> FALSE, path |-> <<>>]
            ELSE IF tree[next].type = "link"
            THEN IF tree[next].target \in DOMAIN tree
                 THEN evalFrom(tree, tree[next].target, Tail(rest))
                 ELSE [ok |-> FALSE, path |-> <<>>]
            ELSE IF tree[next].type = "file" /\ Tail(rest) # <<>>
            THEN [ok |-> FALSE, path |-> <<>>]
            ELSE evalFrom(tree, next, Tail(rest))

\* the entries of a directory in the order filepath.WalkDir reads them
RECURSIVE sortedByName(_)
sortedByName(paths) ==
    IF paths = {} THEN <<>>
    ELSE Only({ <<first>> \o sortedByName(paths \ {first}) :
                first \in {CHOOSE p \in paths :
                              \A q \in paths : p[Len(p)] <= q[Len(q)]} })

childrenOf(tree, dir) ==
    sortedByName({p \in DOMAIN tree :
                     Len(p) = Len(dir) + 1 /\ SubSeq(p, 1, Len(dir)) = dir})

\* displayPath: the real path with the frame's root in place of its real path
displayPath(frame, path) ==
    frame.root \o SubSeq(path, Len(frame.real) + 1, Len(path))

\* skipAll: the callback has answered filepath.SkipAll; late: the paths the
\* callback was called with after that; result: what WalkDir returned
NewWalk(tree) ==
    [pc |-> "idle", tree |-> tree, stack |-> <<>>, visited |-> {},
     reported |-> {}, skipped |-> {}, skipAll |-> FALSE, late |-> {},
     result |-> "none"]

\* the walk is over: every call in progress returns err, which WalkDir
\* returns as nil when it is errStopWalk
stopWalk(w, err) ==
    [w EXCEPT !.pc = "done", !.stack = <<>>,
              !.result = IF err = "errStopWalk" THEN "nil" ELSE err]

\* the callback is called with path and answers ret
callFn(w, path, ret) ==
    [w EXCEPT !.reported = w.reported \cup {path},
              !.late = IF w.skipAll THEN w.late \cup {path} ELSE w.late,
              !.skipAll = w.skipAll \/ ret = "SkipAll"]

handleCbErr(err) == IF err = "SkipAll" THEN "errStopWalk" ELSE err

\* walkDir that does not consult the visited map
walkDirRevisit(w, root, ret) ==
    Only({ IF ~r.ok
           THEN (IF Len(w.stack) = 0 \/ ret = "err"
                 THEN stopWalk(callFn(w, root, ret), ret)
                 ELSE callFn(w, root, ret))
           ELSE [w EXCEPT !.pc = "walking",
                          !.visited = w.visited \cup {r.path},
                          !.stack = <<[root |-> root, real |-> r.path,
                                       todo |-> <<r.path>>]>> \o w.stack] :
           r \in {evalFrom(w.tree, <<>>, root)} })

\* walkDir(root) up to its call of filepath.WalkDir, the callback answering
\* ret if it is called
walkDir(w, root, ret) ==
    Only({ IF ~r.ok
           THEN (IF Len(w.stack) = 0 \/ ret = "err"
                 THEN stopWalk(callFn(w, root, ret), ret)
                 ELSE callFn(w, root, ret))
           ELSE IF r.path \in w.visited
           THEN (IF Len(w.stack) = 0 THEN stopWalk(w, "nil")
                 ELSE [w EXCEPT !.skipped = w.skipped \cup {root}])
           ELSE [w EXCEPT !.pc = "walking",
                          !.visited = w.visited \cup {r.path},
                          !.stack = <<[root |-> root, real |-> r.path,
                                       todo |-> <<r.path>>]>> \o w.stack] :
           r \in {evalFrom(w.tree, <<>>, root)} })

\* what filepath.WalkDir does with the callback's answer for path:
\* [stop, todo], stop when the answer ends every walk in progress, else the
\* paths the frame has still to report
afterCallback(w, frame, path, ret, wrapped) ==
    LET rest == Tail(frame.todo)
        isDir == w.tree[path].type = "dir"
    IN IF ret = "nil"
       THEN [stop |-> FALSE,
             todo |-> IF isDir THEN childrenOf(w.tree, path) \o rest ELSE rest]
       ELSE IF ret = "SkipDir"
       THEN [stop |-> FALSE,
             todo |-> IF isDir THEN rest
                      ELSE SelectSeq(rest, LAMBDA q : SubSeq(q, 1, Len(q) - 1)
                                                       # SubSeq(path, 1, Len(path) - 1))]
       ELSE IF ret = "SkipAll" /\ ~wrapped THEN [stop |-> FALSE, todo |-> <<>>]
       ELSE [stop |-> TRUE, todo |-> <<>>]

\* one call of the function walkDir hands to filepath.WalkDir, for the path
\* filepath.WalkDir reports next, the callback answering ret if it is called
walkFn(w, ret) ==
    LET frame == Head(w.stack)
        path == Head(frame.todo)
        display == displayPath(frame, path)
        entry == w.tree[path]
        popped == [w EXCEPT !.stack = <<[frame EXCEPT !.todo = Tail(frame.todo)]>>
                                      \o Tail(w.stack)]
        called(wrapped) ==
            Only({ IF after.stop
                   THEN stopWalk(callFn(w, display, ret),
                                 IF wrapped THEN handleCbErr(ret) ELSE ret)
                   ELSE [callFn(w, display, ret)
                            EXCEPT !.stack = <<[frame EXCEPT !.todo = after.todo]>>
                                             \o Tail(w.stack)] :
                   after \in {afterCallback(w, frame, path, ret, wrapped)} })
    IN IF entry.type = "link"
       THEN IF entry.target \notin DOMAIN w.tree THEN called(FALSE)
            ELSE IF w.tree[entry.target].type = "dir" THEN walkDir(popped, display, ret)
            ELSE called(FALSE)
       ELSE called(TRUE)

WalkInit ==
    /\ tk = NewAnsiTokenizer
    /\ pre = NewAnsiTokenizer
    /\ fed = <<>>
    /\ emitted = <<>>
    /\ lastOut = <<>>
    /\ lastOp = "init"
    /\ nops = 0
    /\ nflush = 0
    /\ lk = IdxLinker
    /\ sink = <<>>
    /\ links = <<>>
    /\ fs = {}
    /\ idx = NewFileIndex
    /\ fi = Idle
    /\ wk \in {NewWalk(t) : t \in Trees}
    /\ pt = Idle
    /\ cut = <<>>
    /\ rp = Idle

walkFrame == <<tokVars, linkVars, fi, pt, cut, rp>>

\* WalkDir(root, fn)
WalkDirCall ==
    /\ wk.pc = "idle"
    /\ \E root \in WalkRoots, ret \in CallbackResults :
          wk' = walkDir(wk, root, ret)
    /\ UNCHANGED walkFrame

\* filepath.WalkDir reports the next path
WalkFn ==
    /\ wk.pc = "walking"
    /\ Head(wk.stack).todo # <<>>
    /\ \E ret \in CallbackResults : wk' = walkFn(wk, ret)
    /\ UNCHANGED walkFrame

\* filepath.WalkDir has nothing left to report and returns nil
WalkReturn ==
    /\ wk.pc = "walking"
    /\ Head(wk.stack).todo = <<>>
    /\ wk' = IF Len(wk.stack) = 1 THEN stopWalk(wk, "nil")
             ELSE [wk EXCEPT !.stack = Tail(wk.stack)]
    /\ UNCHANGED walkFrame

WalkNext == WalkDirCall \/ WalkFn \/ WalkReturn

\* the goroutine that called WalkDir keeps running
SpecWalk == WalkInit /\ [][WalkNext]_vars /\ WF_vars(WalkNext)

DirsOf(tree) == {p \in DOMAIN tree : tree[p].type = "dir"}

\* C20: WalkDir returns on every tree, symlink cycles included: no real
\* directory is walked from twice at a time, so the calls in progress never
\* outnumber the directories, and a symlink whose real path is already in
\* the visited map is passed over without a call of the callback
WalkTerminates ==
    /\ <>(wk.pc = "done")
    /\ [](Len(wk.stack) <= Cardinality(DirsOf(wk.tree)))
    /\ [](wk.skipped \cap wk.reported = {})

\* C20 witness: a walk of the two directories that link to each other has
\* returned after passing over both links back
WalkTerminatesWitness ==
    /\ wk.pc = "done"
    /\ wk.tree = LoopTree
    /\ wk.skipped = {B(<<"a", "l", "l", "l">>), B(<<"b", "l">>)}
    /\ B(<<"a", "l", "l", "f">>) \in wk.reported

\* C21: once the callback has answered filepath.SkipAll it is not called
\* again, and WalkDir returns nil
SkipAllAborts ==
    wk.skipAll => /\ wk.late = {}
                  /\ (wk.pc = "done" => wk.result = "nil")

\* the first half of C21 alone: no call of the callback follows a SkipAll
SkipAllEndsCalls == wk.skipAll => wk.late = {}

\* C21 holds where handleCbErr sees the answer: after a SkipAll for a
\* directory or a regular file nothing is reported and WalkDir returns nil
SkipAllAbortsWrapped ==
    [][(wk.pc = "walking" /\ wk'.skipAll /\ ~wk.skipAll
        /\ wk.tree[Head(Head(wk.stack).todo)].type # "link")
       => (wk'.pc = "done" /\ wk'.result = "nil")]_vars

(***************************************************************************)
(* run in PTY mode: the wrapper starts the child on a pseudo-terminal,     *)
(* copies what it reads from the master through the Linker to standard     *)
(* output, flushes, waits for the child and exits.                         *)
(***************************************************************************)
\* the exit codes a child ends with
ExitCodes == {0, 3}

PtyOptions == LinkerOptions(<<>>, <<domainHost>>, FALSE, "", FALSE)

\* what the child prints, as the reads from the master deliver it: a path
\* and the pieces of an SGR sequence
PtyChunks == {B(<<"f", ".", "g", "o">>), <<escByte, chLBracket>>, <<chOne>>, <<chM>>}

\* what the deferred function of runPTYMode writes to standard output
restoreBytes == CSISeq(<<"0", "m">>)

NoReturn == [n |-> -1, err |-> "none", len |-> -1, wrote |-> -1, sinkOK |-> FALSE]

\* mutant of writeReturn: Write reports the number of bytes the sink took
writeReturnWritten(p, out, sinkOK) ==
    IF ~sinkOK
    THEN [n |-> 0, err |-> "sink", len |-> Len(p), wrote |-> 0, sinkOK |-> FALSE]
    ELSE [n |-> Len(SinkBytes(out)), err |-> "nil", len |-> Len(p),
          wrote |-> Len(SinkBytes(out)), sinkOK |-> TRUE]

\* what Write(p) returns after its one write of out to the sink: n and err,
\* with the facts of the call (len(p), the bytes the sink took, its answer)
writeReturn(p, out, sinkOK) ==
    IF ~sinkOK
    THEN [n |-> 0, err |-> "sink", len |-> Len(p), wrote |-> 0, sinkOK |-> FALSE]
    ELSE [n |-> Len(p), err |-> "nil", len |-> Len(p),
          wrote |-> Len(SinkBytes(out)), sinkOK |-> TRUE]

NewRun ==
    [pc |-> "start", child |-> "none", status |-> 0, raw |-> FALSE, code |-> -1,
     ended |-> "none", ret |-> NoReturn]

\* runPTYMode returns (code, err) and run returns code to os.Exit
exitRun(r, code, ended) == [r EXCEPT !.pc = "exit", !.code = code, !.ended = ended]

\* the sink after runPTYMode's deferred functions have run
restored(r, out) == IF r.raw THEN out \o Ins(restoreBytes) ELSE out

PtyInit ==
    /\ tk = NewAnsiTokenizer
    /\ pre = NewAnsiTokenizer
    /\ fed = <<>>
    /\ emitted = <<>>
    /\ lastOut = <<>>
    /\ lastOp = "init"
    /\ nops = 0
    /\ nflush = 0
    /\ lk = NewLinker(PtyOptions)
    /\ sink = <<>>
    /\ fs = FsFiles
    /\ idx = NewFileIndex
    /\ links = <<>>
    /\ fi = Idle
    /\ wk = Idle
    /\ pt = NewRun
    /\ cut = <<>>
    /\ rp = Idle

ptyFrame == <<pre, emitted, lastOut, nflush, fs, idx, fi, wk, cut, rp>>

\* pty.Start and term.MakeRaw
PtyStart ==
    /\ pt.pc = "start"
    /\ \E started \in BOOLEAN, raw \in BOOLEAN :
          pt' = IF started
                THEN [pt EXCEPT !.pc = "copy", !.child = "running", !.raw = raw]
                ELSE exitRun(pt, 1, "start")
    /\ UNCHANGED <<tk, fed, lastOp, nops, lk, sink, links, ptyFrame>>

\* the child exits
ChildExit ==
    /\ pt.pc \in {"copy", "flush", "wait"}
    /\ pt.child = "running"
    /\ \E status \in ExitCodes : pt' = [pt EXCEPT !.child = "exited", !.status = status]
    /\ UNCHANGED <<tk, fed, lastOp, nops, lk, sink, links, ptyFrame>>

\* io.Copy(linker, ptmx) reads p from the master and calls linker.Write(p)
PtyWrite ==
    /\ pt.pc = "copy"
    /\ nops < MaxOps
    /\ \E p \in PtyChunks, sinkOK \in BOOLEAN :
          \E r \in {Write(tk, lk, fs, idx, p)} :
              /\ tk' = r.t
              /\ lk' = r.l
              /\ links' = r.log
              /\ fed' = fed \o p
              /\ \E ret \in {writeReturn(p, r.out, sinkOK)} :
                    IF ret.err = "nil"
                    THEN /\ sink' = sink \o r.out
                         /\ pt' = [pt EXCEPT !.ret = ret]
                    ELSE /\ sink' = restored(pt, sink)
                         /\ pt' = exitRun([pt EXCEPT !.ret = ret], 1, "write")
    /\ lastOp' = "write"
    /\ nops' = nops + 1
    /\ UNCHANGED ptyFrame

\* the read from the master that ends io.Copy: end of file, or an error
PtyReadEnd ==
    /\ pt.pc = "copy"
    /\ pt.child = "exited"
    /\ \E end \in {"eof", "readerr"} :
          IF end = "eof"
          THEN /\ pt' = [pt EXCEPT !.pc = "flush", !.ended = "eof"]
               /\ sink' = sink
          ELSE /\ pt' = exitRun(pt, 1, "readerr")
               /\ sink' = restored(pt, sink)
    /\ UNCHANGED <<tk, fed, lastOp, nops, lk, links, ptyFrame>>

\* linker.Flush() after the end of file
PtyFlush ==
    /\ pt.pc = "flush"
    /\ \E sinkOK \in BOOLEAN :
          \E r \in {LinkerFlush(tk)} :
              /\ tk' = r.t
              /\ IF sinkOK \/ r.out = <<>>
                 THEN /\ sink' = sink \o r.out
                      /\ pt' = [pt EXCEPT !.pc = "wait"]
                 ELSE /\ sink' = restored(pt, sink)
                      /\ pt' = exitRun(pt, 1, "flush")
    /\ lastOp' = "flush"
    /\ links' = <<>>
    /\ UNCHANGED <<fed, nops, lk, ptyFrame>>

\* cmd.Wait() returns once the child has exited; its exit code is returned
PtyWait ==
    /\ pt.pc = "wait"
    /\ pt.child = "exited"
    /\ pt' = exitRun(pt, pt.status, pt.ended)
    /\ sink' = restored(pt, sink)
    /\ UNCHANGED <<tk, fed, lastOp, nops, lk, links, ptyFrame>>

PtyNext == PtyStart \/ ChildExit \/ PtyWrite \/ PtyReadEnd \/ PtyFlush \/ PtyWait

SpecPTY == PtyInit /\ [][PtyNext]_vars

\* C22: Write(p) returns (len(p), nil) when the sink took what Write gave
\* it, however many bytes that was, and (0, the sink's error) when it did not
WriteReturns ==
    pt.ret # NoReturn =>
        /\ pt.ret.sinkOK => pt.ret.n = pt.ret.len /\ pt.ret.err = "nil"
        /\ ~pt.ret.sinkOK => pt.ret.n = 0 /\ pt.ret.err = "sink"

\* C22 witness: a Write whose bytes only extended an unfinished sequence gave
\* the sink nothing and returned len(p)
WriteReturnsWitness ==
    /\ pt.ret.sinkOK
    /\ pt.ret.wrote = 0
    /\ pt.ret.len > 0
    /\ pt.ret.n = pt.ret.len

\* a Write that wrapped a path gave the sink more bytes than it received
WriteReturnsLinkedWitness ==
    /\ pt.ret.sinkOK
    /\ pt.ret.wrote > pt.ret.len
    /\ pt.ret.n = pt.ret.len

\* a Write whose sink failed returned 0 and the error, and the wrapper exits
WriteReturnsFailedWitness ==
    /\ pt.ret.err = "sink"
    /\ pt.ret.n = 0
    /\ pt.ended = "write"

\* C24: when the read loop has ended, by end of file or by a read error, and
\* the child has exited, the wrapper exits with the child's exit code
ExitCodePropagated ==
    (pt.pc = "exit" /\ pt.child = "exited" /\ pt.ended \in {"eof", "readerr"})
        => pt.code = pt.status

\* what the code does for C24: the child's exit code after an end of file
ExitCodePropagatedAtEOF ==
    (pt.pc = "exit" /\ pt.ended = "eof") => pt.code = pt.status /\ pt.child = "exited"

\* the wrapper has exited with the code of a child that failed
ExitCodePropagatedWitness ==
    /\ pt.pc = "exit"
    /\ pt.ended = "eof"
    /\ pt.code = 3

(***************************************************************************)
(* One input given to a Linker in pieces: Write calls on an unchanging     *)
(* filesystem and index, then one Flush.  cut records the length of each   *)
(* piece, pre the tokenizer before the last Write and lastOut what that    *)
(* Write gave the sink.                                                    *)
(***************************************************************************)
wordFoo == B(<<"F", "o", "o">>)
wordBar == B(<<"B", "a", "r">>)
wordAb == B(<<"a", "b">>)

SymbolPieces == { wordFoo, wordAb, B(<<".">>), B(<<"(">>), B(<<" ">>) }

\* text without escape bytes, paths or URLs: one and two pieces, and longer
\* chains of words
SymbolSegments ==
    SymbolPieces
    \cup { x \o y : x \in SymbolPieces, y \in SymbolPieces }
    \cup { wordFoo \o B(<<".">>) \o wordBar,
           wordFoo \o B(<<".">>) \o wordBar \o B(<<"(", "x">>),
           wordAb \o B(<<".">>) \o wordFoo \o B(<<".">>) \o wordAb \o B(<<".">>) \o wordBar,
           wordFoo \o B(<<".", ".">>) \o wordBar,
           wordFoo \o B(<<".", " ">>) \o wordBar,
           wordFoo \o B(<<" ", ".">>) \o wordBar,
           wordFoo \o B(<<"_", "1", ".">>) \o wordBar \o B(<<".">>),
           B(<<".">>) \o wordFoo \o B(<<".">>) \o wordBar }

SplitChunks ==
    SymbolSegments
    \cup { sgrBold, sgrResetSeq, osc8Open, osc8Close,
           <<escByte>>,
           <<escByte, chLBracket>>,
           <<chLBracket>> \o B(<<"1", "m">>),
           B(<<"1", "m">>) \o wordFoo,
           litOSC8,
           <<chX, belByte>>,
           <<chX, escByte>>,
           <<chBackslash>> \o wordFoo,
           B(<<"f", ".", "g", "o">>),
           B(<<"f", ".">>),
           B(<<"g", "o", ":", "3">>) }

SplitOptions ==
    { LinkerOptions(schemeCursor, <<domainHost>>, FALSE, "", TRUE),
      LinkerOptions(schemeCursor, <<domainHost>>, FALSE, "bel", TRUE) }

SplitInit ==
    /\ tk = NewAnsiTokenizer
    /\ pre = NewAnsiTokenizer
    /\ fed = <<>>
    /\ emitted = <<>>
    /\ lastOut = <<>>
    /\ lastOp = "init"
    /\ nops = 0
    /\ nflush = 0
    /\ lk \in {NewLinker(o) : o \in SplitOptions}
    /\ sink = <<>>
    /\ fs = FsFiles
    /\ idx = NewFileIndex
    /\ links = <<>>
    /\ fi = Idle
    /\ wk = Idle
    /\ pt = Idle
    /\ cut = <<>>
    /\ rp = Idle

\* Linker.Write(p) of the next piece; one operation is kept for the Flush
SplitWrite ==
    \E p \in SplitChunks :
        /\ nflush = 0
        /\ nops + 1 < MaxOps
        /\ \E r \in {Write(tk, lk, fs, idx, p)} :
              /\ tk' = r.t
              /\ lk' = r.l
              /\ sink' = sink \o r.out
              /\ lastOut' = r.out
              /\ links' = r.log
        /\ pre' = tk
        /\ fed' = fed \o p
        /\ cut' = Append(cut, Len(p))
        /\ lastOp' = "write"
        /\ nops' = nops + 1
        /\ UNCHANGED <<emitted, nflush, fs, idx, fi, wk, pt, rp>>

\* Linker.Flush() after the last piece
SplitFlush ==
    /\ nflush = 0
    /\ nops < MaxOps
    /\ \E r \in {LinkerFlush(tk)} :
          /\ tk' = r.t
          /\ sink' = sink \o r.out
          /\ lastOut' = r.out
    /\ pre' = tk
    /\ lastOp' = "flush"
    /\ nops' = nops + 1
    /\ nflush' = nflush + 1
    /\ links' = <<>>
    /\ UNCHANGED <<fed, emitted, lk, fs, idx, fi, wk, pt, cut, rp>>

SplitNext == SplitWrite \/ SplitFlush

SpecSplit == SplitInit /\ [][SplitNext]_vars

\* the Linker as NewLinker left it
FreshLinker(l) ==
    [l EXCEPT !.fileCache = [q \in {} |-> FALSE], !.styled = FALSE, !.inOSC8 = FALSE]

\* what Write(input), Flush give the sink of a fresh Linker
OneShotBytes(l, files, ix, input) ==
    Only({ Only({ SinkBytes(w.out \o f.out) : f \in {LinkerFlush(w.t)} }) :
           w \in {Write(NewAnsiTokenizer, FreshLinker(l), files, ix, input)} })

RECURSIVE TokenStart(_, _)
TokenStart(toks, k) ==
    IF k <= 1 THEN 0 ELSE TokenStart(toks, k - 1) + Len(toks[k - 1].Data)

\* offset c lies between two bytes of one plain-text run
InsideText(toks, c) ==
    \E k \in 1..Len(toks) :
        /\ toks[k].Kind = "Text"
        /\ TokenStart(toks, k) < c
        /\ c < TokenStart(toks, k) + Len(toks[k].Data)

RECURSIVE SumLen(_, _)
SumLen(lens, k) == IF k = 0 THEN 0 ELSE SumLen(lens, k - 1) + lens[k]

\* the offsets in fed at which one Write ended and the next began
CutPoints == { SumLen(cut, k) : k \in 1..(Len(cut) - 1) }

CutsOutsideText ==
    \A toks \in {OneShot(fed, TRUE)} : \A c \in CutPoints : ~InsideText(toks, c)

\* C32: when no Write ended between two bytes of one plain-text run, the
\* bytes the Writes and the Flush gave the sink are the bytes that one Write
\* of the whole input and a Flush give it
SplitEquivalence ==
    (lastOp = "flush" /\ CutsOutsideText) => SinkBytes(sink) = OneShotBytes(lk, fs, idx, fed)

\* C32 witness: the input was cut inside an SGR sequence, and the word after
\* it, styled by the sequence the second Write completed, was linked
SplitEquivalenceWitness ==
    /\ lastOp = "flush"
    /\ cut = <<2, 5>>
    /\ fed = sgrBold \o wordFoo
    /\ Len(SinkBytes(sink)) > Len(fed)

\* an OSC 8 link opened in one Write passes the text of the next through
SplitPassthroughWitness ==
    /\ lastOp = "flush"
    /\ fed = osc8Open \o B(<<"f", ".", "g", "o">>)
    /\ Len(cut) = 2
    /\ SinkBytes(sink) = fed

\* a cut inside a plain-text run changes the bytes
SplitInsideTextWitness ==
    /\ lastOp = "flush"
    /\ ~CutsOutsideText
    /\ SinkBytes(sink) # OneShotBytes(lk, fs, idx, fed)

\* the input of the last Write
lastPiece == Slice(fed, Len(fed) - cut[Len(cut)], Len(fed))

\* processTextWithState hands the whole of data to symbol rewriting: nothing
\* in it matches, or all of it is a path candidate that was not linked
WholeSegment(data, domains, log) ==
    \A matches \in {FindAllSubmatchIndex(data, domains)} :
        \/ matches = <<>>
        \/ /\ Len(matches) = 1
           /\ matches[1].s = 0 /\ matches[1].e = Len(data)
           /\ ~submatch(matches[1].g1) /\ ~submatch(matches[1].g2)
           /\ submatch(matches[1].g3)
           /\ \A k \in 1..Len(log) : log[k].kind = "symbol"

\* the last Write was given one segment for symbol rewriting: plain text,
\* styled, outside an OSC 8 link
SymbolSegmentWritten ==
    /\ lastOp = "write"
    /\ lk.symbolLinks /\ lk.styled /\ ~lk.inOSC8
    /\ pre.state = "Ground"
    /\ lastPiece \in SymbolSegments
    /\ WholeSegment(lastPiece, lk.domains, links)

\* the offsets at which a maximal run of word bytes starts
RunStarts(data) ==
    { s \in 0..(Len(data) - 1) :
        isWordChar(At(data, s)) /\ (s = 0 \/ ~isWordChar(At(data, s - 1))) }

RunEnd(data, s) == s + RunLen(data, s, isWordChar)

LinkedRuns(data) == { s \in RunStarts(data) : RunEnd(data, s) - s >= 3 }

\* the number of linked runs starting before s, plus one
RunRank(data, s) == Cardinality({ r \in LinkedRuns(data) : r < s }) + 1

\* a dot with a word byte on both sides
JoiningDot(data, i) ==
    /\ At(data, i) = 46
    /\ i > 0 /\ isWordChar(At(data, i - 1))
    /\ i + 1 < Len(data) /\ isWordChar(At(data, i + 1))

\* where the chain of dot-joined runs ending with the run at s starts
ChainStart(data, s) ==
    MinOf({ c \in 0..s :
              \A i \in c..(s - 1) : isWordChar(At(data, i)) \/ JoiningDot(data, i) })

\* the segment with every run of three or more word bytes wrapped in a link
\* whose symbol is symbolOf[s] and every other byte copied
RECURSIVE ScanFrom(_, _, _, _)
ScanFrom(l, data, i, symbolOf) ==
    IF i >= Len(data) THEN <<>>
    ELSE IF i \in LinkedRuns(data)
    THEN SinkBytes(wrapSymbol(l, Slice(data, i, RunEnd(data, i)), symbolOf[i],
                              RunEnd(data, i) < Len(data)
                              /\ At(data, RunEnd(data, i)) = 40))
         \o ScanFrom(l, data, RunEnd(data, i), symbolOf)
    ELSE <<At(data, i)>> \o ScanFrom(l, data, i + 1, symbolOf)

\* C33: in a segment given to symbol rewriting every maximal run of three or
\* more word bytes is wrapped in one link that displays the run, with
\* &kind=Function exactly when "(" follows the run; all other bytes are
\* copied, and without the inserted bytes the output is the segment
SymbolScan ==
    SymbolSegmentWritten =>
        \A data \in {lastPiece} :
            /\ Len(links) = Cardinality(LinkedRuns(data))
            /\ \A k \in 1..Len(links) : links[k].kind = "symbol"
            /\ Len(links) = Cardinality(LinkedRuns(data)) =>
                   SinkBytes(lastOut)
                       = ScanFrom(lk, data, 0,
                                  [s \in LinkedRuns(data) |-> links[RunRank(data, s)].target])
            /\ CopiedBytes(lastOut) = data

\* C33 witness: a word followed by "(" was linked as a function
SymbolScanWitness ==
    /\ SymbolSegmentWritten
    /\ lastPiece = wordFoo \o B(<<"(">>)
    /\ Len(links) = 1

\* a run of two word bytes was copied without a link
SymbolScanShortWitness ==
    /\ SymbolSegmentWritten
    /\ lastPiece = wordAb \o B(<<"(">>)
    /\ SinkBytes(lastOut) = lastPiece

\* C34: the symbol of a word's link is the chain of word runs joined to it by
\* single dots with word bytes on both sides, the word included; the link
\* displays the word alone
QualifiedNames ==
    SymbolSegmentWritten =>
        \A data \in {lastPiece} :
            /\ Len(links) = Cardinality(LinkedRuns(data))
            /\ \A s \in LinkedRuns(data) :
                   RunRank(data, s) <= Len(links) =>
                       links[RunRank(data, s)].target
                           = Slice(data, ChainStart(data, s), RunEnd(data, s))
            /\ SinkBytes(lastOut)
                   = ScanFrom(lk, data, 0,
                              [s \in LinkedRuns(data) |->
                                  Slice(data, ChainStart(data, s), RunEnd(data, s))])

\* C34 witness: in Foo.Bar the second word was linked with the symbol Foo.Bar
QualifiedNamesWitness ==
    /\ SymbolSegmentWritten
    /\ lastPiece = wordFoo \o B(<<".">>) \o wordBar
    /\ Len(links) = 2
    /\ links[1].target = wordFoo
    /\ links[2].target = wordFoo \o B(<<".">>) \o wordBar

\* a short word is part of the chain: in ab.Foo.ab.Bar the last word's symbol
\* is the whole chain
QualifiedNamesShortWitness ==
    /\ SymbolSegmentWritten
    /\ Len(links) = 2
    /\ links[2].target
           = wordAb \o B(<<".">>) \o wordFoo \o B(<<".">>) \o wordAb \o B(<<".">>) \o wordBar

\* a dot without a word byte after it ends the chain
QualifiedNamesResetWitness ==
    /\ SymbolSegmentWritten
    /\ lastPiece = wordFoo \o B(<<".", ".">>) \o wordBar
    /\ links[2].target = wordBar

(***************************************************************************)
(* Resolve running beside the watcher.  The entry list of the basename f   *)
(* is a Go slice: fi.heap holds the arrays allocated for it, fi.cur the    *)
(* array the map's slice points to and fi.n its length; the capacity is    *)
(* the length of the array.  Resolve copies the slice header while it      *)
(* holds the read lock and reads the elements after it released the lock;  *)
(* addFile and handleRemove run with the write lock held.  fi.call is the  *)
(* Resolve call in progress:                                               *)
(*   a, n      the array and the length of the header it copied            *)
(*   i         the element the loop reads next                             *)
(*   allowed   what the selection rule gave for the list at the start of   *)
(*             the call and after each update since; the list counts as    *)
(*             updated from the moment the update holds the lock           *)
(*   removing  whether handleRemove ran during the call                    *)
(***************************************************************************)
RaceFiles == {fileTop, fileSub, fileNew}

RaceQueries == { nameF, B(<<"s", "/", "f">>) }

FileInfo(path) == [path |-> path, mtime |-> Mtime[path]]

zeroFileInfo == [path |-> <<>>, mtime |-> 0]

\* append on a full slice allocates an array of twice the capacity
grownCap(cap) == IF cap = 0 THEN 1 ELSE 2 * cap

\* append(s, e) for the slice of length n on array arr: [arr, fresh]
appendSlice(arr, n, e) ==
    IF n < Len(arr)
    THEN [arr |-> [arr EXCEPT ![n + 1] = e], fresh |-> FALSE]
    ELSE [arr |-> [k \in 1..grownCap(Len(arr)) |->
                      IF k <= n THEN arr[k] ELSE IF k = n + 1 THEN e ELSE zeroFileInfo],
          fresh |-> TRUE]

hasSlash(path) == \E k \in 1..Len(path) : path[k] = 47

\* the selection rule on a list: the entries ending in "/"+path when the path
\* has a slash and some do, of these the first with the greatest mtime
Selected(entries, path) ==
    Only({ IF rem = {} THEN <<>>
           ELSE entries[MinOf({ i \in rem :
                                  \A j \in rem : entries[i].mtime >= entries[j].mtime })].path :
           rem \in {Remaining(entries, path)} })

NoResolve == [pc |-> "none"]

RaceInit ==
    /\ tk = NewAnsiTokenizer
    /\ pre = NewAnsiTokenizer
    /\ fed = <<>>
    /\ emitted = <<>>
    /\ lastOut = <<>>
    /\ lastOp = "init"
    /\ nops = 0
    /\ nflush = 0
    /\ lk = IdxLinker
    /\ sink = <<>>
    /\ links = <<>>
    /\ wk = Idle
    /\ fs = RaceFiles
    /\ \E l \in { <<FileInfo(fileTop)>>, <<FileInfo(fileTop), FileInfo(fileSub)>> } :
          /\ idx = [ready |-> TRUE, files |-> l]
          /\ fi = [pc |-> "run", heap |-> <<l>>, cur |-> 1, n |-> Len(l), wi |-> 0,
                   after |-> l, fsops |-> 0, call |-> NoResolve, res |-> NoCall]
    /\ pt = Idle
    /\ cut = <<>>
    /\ rp = Idle

raceFrame == <<tokVars, lk, sink, links, wk, pt, cut, rp, fs>>

\* the call in progress after the list became entries
observed(call, entries) ==
    IF call.pc = "none" THEN call
    ELSE [call EXCEPT !.allowed = @ \cup {Selected(entries, call.path)}]

\* the watcher handles the create event of a file: addFile(path, mtime)
RaceAddFile ==
    \E p \in RaceFiles :
        /\ fi.pc = "run"
        /\ fi.fsops < MaxFsOps
        /\ \A k \in 1..fi.n : fi.heap[fi.cur][k].path # p
        /\ \E r \in {appendSlice(fi.heap[fi.cur], fi.n, FileInfo(p))} :
           \E entries \in {Append(idx.files, FileInfo(p))} :
              /\ fi' = [fi EXCEPT !.heap = IF r.fresh THEN Append(@, r.arr)
                                           ELSE [@ EXCEPT ![fi.cur] = r.arr],
                                  !.cur = IF r.fresh THEN Len(fi.heap) + 1 ELSE @,
                                  !.n = @ + 1,
                                  !.after = entries,
                                  !.fsops = @ + 1,
                                  !.call = observed(@, entries)]
              /\ idx' = [idx EXCEPT !.files = entries]
        /\ UNCHANGED raceFrame

\* the watcher handles a remove event: handleRemove takes the lock and finds
\* the entry
RaceRemoveStart ==
    \E p \in RaceFiles :
        /\ fi.pc = "run"
        /\ fi.fsops < MaxFsOps
        /\ \E k \in 1..fi.n :
           \E entries \in {handleRemove(idx.files, p)} :
              /\ fi.heap[fi.cur][k].path = p
              /\ fi' = [fi EXCEPT !.pc = "shift", !.wi = k, !.fsops = @ + 1,
                                  !.after = entries,
                                  !.call = IF @.pc = "none" THEN @
                                           ELSE observed([@ EXCEPT !.removing = TRUE],
                                                         entries)]
        /\ UNCHANGED <<raceFrame, idx>>

\* append(files[:i], files[i+1:]...) moves one element down, in the array
\* the slice points to
RaceShift ==
    /\ fi.pc = "shift"
    /\ fi.wi < fi.n
    /\ fi' = [fi EXCEPT !.heap[fi.cur][fi.wi] = fi.heap[fi.cur][fi.wi + 1],
                        !.wi = @ + 1]
    /\ UNCHANGED <<raceFrame, idx>>

\* handleRemove stores the shorter slice in the map and releases the lock
RaceRemoveEnd ==
    /\ fi.pc = "shift"
    /\ fi.wi = fi.n
    /\ fi' = [fi EXCEPT !.pc = "run", !.n = @ - 1, !.wi = 0]
    /\ idx' = [idx EXCEPT !.files = SubSeq(fi.heap[fi.cur], 1, fi.n - 1)]
    /\ UNCHANGED raceFrame

\* Resolve returns
resolved(f, result) ==
    [f EXCEPT !.call = NoResolve,
              !.res = [op |-> "resolve", path |-> f.call.path, result |-> result,
                       allowed |-> f.call.allowed, removing |-> f.call.removing]]

\* Resolve(path) is called
ResolveStart ==
    \E q \in RaceQueries :
        /\ fi.call.pc = "none"
        /\ fi' = [fi EXCEPT !.call = [pc |-> "ready", path |-> q, a |-> 0, n |-> 0, i |-> 0,
                                      filtered |-> <<>>, newest |-> zeroFileInfo,
                                      allowed |-> {Selected(idx.files, q),
                                                   Selected(fi.after, q)},
                                      removing |-> fi.pc = "shift"],
                            !.res = NoCall]
        /\ UNCHANGED <<raceFrame, idx>>

\* Resolve reads ready with the read lock held
ResolveReady ==
    /\ fi.call.pc = "ready"
    /\ fi.pc = "run"
    /\ fi' = IF idx.ready THEN [fi EXCEPT !.call.pc = "header"] ELSE resolved(fi, <<>>)
    /\ UNCHANGED <<raceFrame, idx>>

\* Resolve copies the slice of the basename with the read lock held
ResolveHeader ==
    /\ fi.call.pc = "header"
    /\ fi.pc = "run"
    /\ fi' = IF fi.n = 0 THEN resolved(fi, <<>>)
             ELSE [fi EXCEPT !.call.a = fi.cur, !.call.n = fi.n, !.call.i = 1,
                             !.call.pc = IF hasSlash(fi.call.path) THEN "filter"
                                         ELSE "pick"]
    /\ UNCHANGED <<raceFrame, idx>>

\* the suffix loop of Resolve reads one element; after the last one the
\* filtered copies are the candidates if there are any
ResolveFilter ==
    /\ fi.call.pc = "filter"
    /\ \E c \in {fi.heap[fi.call.a][fi.call.i]} :
       \E filtered \in {IF HasSuffix(c.path, <<47>> \o fi.call.path)
                        THEN Append(fi.call.filtered, c) ELSE fi.call.filtered} :
          fi' = IF fi.call.i < fi.call.n
                THEN [fi EXCEPT !.call.filtered = filtered, !.call.i = @ + 1]
                ELSE IF filtered = <<>>
                THEN [fi EXCEPT !.call.pc = "pick", !.call.i = 1]
                ELSE resolved(fi, IF Len(filtered) = 1 THEN filtered[1].path
                                  ELSE newestOf(filtered, zeroFileInfo).path)
    /\ UNCHANGED <<raceFrame, idx>>

\* Resolve on the unfiltered candidates: the only one, or the newest loop
ResolvePick ==
    /\ fi.call.pc = "pick"
    /\ fi' = IF fi.call.n = 1 THEN resolved(fi, fi.heap[fi.call.a][1].path)
             ELSE [fi EXCEPT !.call.pc = "newest", !.call.i = 1]
    /\ UNCHANGED <<raceFrame, idx>>

\* the newest loop of Resolve reads one element
ResolveNewest ==
    /\ fi.call.pc = "newest"
    /\ \E c \in {fi.heap[fi.call.a][fi.call.i]} :
       \E newest \in {IF c.mtime > fi.call.newest.mtime THEN c ELSE fi.call.newest} :
          fi' = IF fi.call.i < fi.call.n
                THEN [fi EXCEPT !.call.newest = newest, !.call.i = @ + 1]
                ELSE resolved(fi, newest.path)
    /\ UNCHANGED <<raceFrame, idx>>

RaceNext ==
    \/ RaceAddFile \/ RaceRemoveStart \/ RaceShift \/ RaceRemoveEnd
    \/ ResolveStart \/ ResolveReady \/ ResolveHeader \/ ResolveFilter
    \/ ResolvePick \/ ResolveNewest

SpecRace == RaceInit /\ [][RaceNext]_vars

\* C36: a Resolve call that ran beside addFile and handleRemove returns ""
\* or what the selection rule gives for the entry list as it was at one
\* instant between the call and the return
ResolveAtomic ==
    fi.res.op = "resolve" => fi.res.result \in fi.res.allowed \cup {<<>>}

\* what the code keeps for C36: the calls during which no handleRemove ran
ResolveAtomicWithoutRemove ==
    (fi.res.op = "resolve" /\ ~fi.res.removing)
        => fi.res.result \in fi.res.allowed \cup {<<>>}

\* a call that ran beside addFile returned the answer of one instant
ResolveAtomicWithoutRemoveWitness ==
    /\ fi.res.op = "resolve"
    /\ ~fi.res.removing
    /\ Cardinality(fi.res.allowed) = 2
    /\ fi.res.result \in fi.res.allowed

(***************************************************************************)
(* ReplayWrites as a process.  rp holds:                                   *)
(*   pc         "new", "emit", "wait" (waitForNextStep reads), "esc" and   *)
(*              "csi" (parseEscapedInterrupt reads), "select", "done"      *)
(*   records    the records, each [Seq, Input, Output]                     *)
(*   mode       opts.Mode as given                                         *)
(*   hasInput   stepInput is not nil                                       *)
(*   input      the bytes of the step input not read yet; end of file      *)
(*              follows them                                               *)
(*   i          the index of the record the loop is at                     *)
(*   out        what was emitted, each [data, consumed, last, eof, ctrlc]: *)
(*              the bytes, and at the time they were emitted the number    *)
(*              of step bytes read, the last of them, and eof and ctrlc    *)
(*   seq        the sequence parseEscapedInterrupt has collected           *)
(*   werr       what waitForNextStep sent on errCh                         *)
(*   cancelled  ctx is done                                                *)
(*   ret        what ReplayWrites returned                                 *)
(*   consumed, last   the number of step bytes read and the last of them   *)
(*   eof        a read returned end of file                                *)
(*   ctrlc      a 0x03 byte or a Ctrl-C key sequence was read              *)
(***************************************************************************)
ctrlCByte == 3
maxInterruptSeq == 64

WriteRecord(seq, input, output) == [Seq |-> seq, Input |-> input, Output |-> output]

StreamOutput == "output"
StreamInput == "input"

\* strings.ToLower(strings.TrimSpace(value)) on the modes given here
lowerTrim(value) == IF value \in {"Input", " input"} THEN "input" ELSE value

\* ParseStreamMode: [mode, ok]
ParseStreamMode(value) ==
    Only({ IF v = StreamOutput THEN [mode |-> StreamOutput, ok |-> TRUE]
           ELSE IF v = StreamInput THEN [mode |-> StreamInput, ok |-> TRUE]
           ELSE [mode |-> "", ok |-> FALSE] :
           v \in {lowerTrim(value)} })

\* emitRecord: the bytes written for a record
emitRecord(rec, mode) == IF mode = StreamInput THEN rec.Input ELSE rec.Output

\* strings.Split(body, sep)
RECURSIVE splitAt(_, _, _)
splitAt(body, sep, acc) ==
    IF body = <<>> THEN <<acc>>
    ELSE IF Head(body) = sep THEN <<acc>> \o splitAt(Tail(body), sep, <<>>)
    ELSE splitAt(Tail(body), sep, Append(acc, Head(body)))

RECURSIVE digitsValue(_, _)
digitsValue(ds, acc) ==
    IF ds = <<>> THEN acc ELSE digitsValue(Tail(ds), 10 * acc + (Head(ds) - 48))

\* strconv.Atoi: [ok, v]
Atoi(str) ==
    Only({ IF ds = <<>> \/ \E k \in 1..Len(ds) : ~isDigit(ds[k])
           THEN [ok |-> FALSE, v |-> 0]
           ELSE [ok |-> TRUE,
                 v |-> IF str[1] = 45 THEN 0 - digitsValue(ds, 0) ELSE digitsValue(ds, 0)] :
           ds \in {IF str # <<>> /\ str[1] \in {43, 45} THEN Tail(str) ELSE str} })

hasCtrlModifier(modifier) == modifier > 0 /\ ((modifier - 1) \div 4) % 2 = 1

isCtrlCKeyCode(keyCode) == keyCode \in {3, 67, 99}

\* the part of a modifier field before its first colon
beforeColon(part) ==
    Only({ IF ks = {} THEN part ELSE SubSeq(part, 1, MinOf(ks) - 1) :
           ks \in {{k \in 1..Len(part) : part[k] = 58}} })

\* isCtrlCSequence on the bytes that follow ESC
isCtrlCSequence(seq) ==
    IF Len(seq) < 2 \/ seq[1] # chLBracket THEN FALSE
    ELSE Only({ IF seq[Len(seq)] = 117
                THEN /\ Len(parts) >= 2
                     /\ Atoi(parts[1]).ok /\ isCtrlCKeyCode(Atoi(parts[1]).v)
                     /\ Atoi(beforeColon(parts[2])).ok
                     /\ hasCtrlModifier(Atoi(beforeColon(parts[2])).v)
                ELSE IF seq[Len(seq)] = 126
                THEN /\ Len(parts) >= 3
                     /\ Atoi(parts[1]).ok /\ Atoi(parts[1]).v = 27
                     /\ Atoi(parts[2]).ok /\ hasCtrlModifier(Atoi(parts[2]).v)
                     /\ Atoi(parts[3]).ok /\ isCtrlCKeyCode(Atoi(parts[3]).v)
                ELSE FALSE :
                parts \in {splitAt(SubSeq(seq, 2, Len(seq) - 1), chSemi, <<>>)} })

kittyCtrlC == <<escByte, chLBracket>> \o B(<<"9", "9", ";", "5", "u">>)
xtermCtrlC == <<escByte, chLBracket>> \o B(<<"2", "7", ";", "5", ";", "9", "9", "~">>)
kittyPlainC == <<escByte, chLBracket>> \o B(<<"9", "9", ";", "1", ":", "5", "u">>)
arrowUp == <<escByte, chLBracket, 65>>

StepInputs ==
    { <<>>, <<10>>, <<13, 10>>, <<120, 10>>, <<10, 10, 10>>,
      <<ctrlCByte>>, <<10, ctrlCByte>>,
      kittyCtrlC, <<10>> \o xtermCtrlC,
      kittyPlainC \o <<10>>, arrowUp \o <<10>>,
      <<escByte, 10, 10>>,
      <<escByte, ctrlCByte, 10>>,
      <<escByte, chLBracket>> \o Fill(49, maxInterruptSeq - 1) \o <<10, 10>> }

ReplayRecords ==
    <<WriteRecord(1, B(<<"i", "1">>), B(<<"o", "1">>)),
      WriteRecord(2, B(<<"i", "2">>), B(<<"o", "2">>)),
      WriteRecord(3, B(<<"i", "3">>), B(<<"o", "3">>))>>

ReplayModes == {"", StreamOutput, StreamInput, "Input", "raw"}

NewReplay(records, mode, hasInput, input) ==
    [pc |-> "new", records |-> records, mode |-> mode, hasInput |-> hasInput,
     input |-> input, i |-> 0, out |-> <<>>, seq |-> <<>>, werr |-> "none",
     cancelled |-> FALSE, ret |-> "none", consumed |-> 0, last |-> 0,
     eof |-> FALSE, ctrlc |-> FALSE]

ReplayInit ==
    /\ tk = NewAnsiTokenizer
    /\ pre = NewAnsiTokenizer
    /\ fed = <<>>
    /\ emitted = <<>>
    /\ lastOut = <<>>
    /\ lastOp = "init"
    /\ nops = 0
    /\ nflush = 0
    /\ lk = IdxLinker
    /\ sink = <<>>
    /\ fs = {}
    /\ idx = NewFileIndex
    /\ links = <<>>
    /\ fi = Idle
    /\ wk = Idle
    /\ pt = Idle
    /\ cut = <<>>
    /\ rp \in { NewReplay(SubSeq(ReplayRecords, 1, n), mode, TRUE, input) :
                  n \in 0..Len(ReplayRecords), mode \in ReplayModes, input \in StepInputs }
              \cup { NewReplay(ReplayRecords, StreamOutput, FALSE, <<>>) }

replayFrame == <<tokVars, linkVars, fi, wk, pt, cut>>

returned(r, ret) == [r EXCEPT !.pc = "done", !.ret = ret]

\* ReplayWrites up to the loop: the checks on records, mode and step input
ReplayStart ==
    /\ rp.pc = "new"
    /\ rp' = IF Len(rp.records) = 0 THEN returned(rp, "norecords")
             ELSE Only({ IF ~ParseStreamMode(mode).ok THEN returned(rp, "badmode")
                         ELSE IF ~rp.hasInput THEN returned(rp, "nilinput")
                         ELSE [rp EXCEPT !.pc = "emit", !.mode = mode, !.i = 1] :
                         mode \in {IF rp.mode = "" THEN StreamOutput ELSE rp.mode} })
    /\ UNCHANGED replayFrame

\* the loop body up to the select: emitRecord, which the writer may fail,
\* then the break after the last record or the start of waitForNextStep
ReplayEmit ==
    /\ rp.pc = "emit"
    /\ \E ok \in BOOLEAN :
          rp' = IF ~ok THEN returned(rp, "sink")
                ELSE Only({ IF rp.i = Len(rp.records) THEN returned(r, "nil")
                            ELSE [r EXCEPT !.pc = "wait", !.werr = "none"] :
                            r \in {[rp EXCEPT !.out = Append(@,
                                       [data |-> emitRecord(rp.records[rp.i], rp.mode),
                                        consumed |-> rp.consumed, last |-> rp.last,
                                        eof |-> rp.eof, ctrlc |-> rp.ctrlc])]} })
    /\ UNCHANGED replayFrame

\* reader.ReadByte() took b, or end of file when the input is used up
readByte(r) ==
    IF r.input = <<>> THEN [r EXCEPT !.eof = TRUE]
    ELSE [r EXCEPT !.input = Tail(@), !.consumed = @ + 1, !.last = Head(r.input),
                   !.ctrlc = @ \/ Head(r.input) = ctrlCByte]

\* waitForNextStep sends err on errCh
sent(r, err) == [r EXCEPT !.pc = "select", !.werr = err]

\* waitForNextStep reads one byte
ReplayRead ==
    /\ rp.pc = "wait"
    /\ \E r \in {readByte(rp)} :
          rp' = IF rp.input = <<>> THEN sent(r, "EOF")
                ELSE IF r.last \in {10, 13} THEN sent(r, "nil")
                ELSE IF r.last = ctrlCByte THEN sent(r, "interrupted")
                ELSE IF r.last = escByte THEN [r EXCEPT !.pc = "esc"]
                ELSE r
    /\ UNCHANGED replayFrame

\* parseEscapedInterrupt reads the byte after ESC
ReplayReadEsc ==
    /\ rp.pc = "esc"
    /\ \E r \in {readByte(rp)} :
          rp' = IF rp.input = <<>> THEN sent(r, "EOF")
                ELSE IF r.last # chLBracket THEN [r EXCEPT !.pc = "wait"]
                ELSE [r EXCEPT !.pc = "csi", !.seq = <<chLBracket>>]
    /\ UNCHANGED replayFrame

\* parseEscapedInterrupt reads one byte of the sequence
ReplayReadCSI ==
    /\ rp.pc = "csi"
    /\ \E r \in {readByte(rp)} :
       \E seq \in {IF rp.input = <<>> THEN rp.seq ELSE Append(rp.seq, Head(rp.input))} :
          rp' = IF rp.input = <<>> THEN sent(r, "EOF")
                ELSE IF r.last >= 64 /\ r.last <= 126
                THEN IF isCtrlCSequence(seq)
                     THEN sent([r EXCEPT !.seq = <<>>, !.ctrlc = TRUE], "interrupted")
                     ELSE [r EXCEPT !.pc = "wait", !.seq = <<>>]
                ELSE IF Len(seq) >= maxInterruptSeq THEN [r EXCEPT !.pc = "wait", !.seq = <<>>]
                ELSE [r EXCEPT !.seq = seq]
    /\ UNCHANGED replayFrame

\* the select of ReplayWrites receives from errCh
ReplaySelect ==
    /\ rp.pc = "select"
    /\ rp' = IF rp.werr = "EOF" THEN returned(rp, "nil")
             ELSE IF rp.werr # "nil" THEN returned(rp, rp.werr)
             ELSE [rp EXCEPT !.pc = "emit", !.i = @ + 1]
    /\ UNCHANGED replayFrame

\* the select of ReplayWrites receives from ctx.Done()
ReplayDone ==
    /\ rp.pc \in {"wait", "esc", "csi", "select"}
    /\ rp.cancelled
    /\ rp' = returned(rp, "interrupted")
    /\ UNCHANGED replayFrame

\* cancel() of the context ReplayWrites was given
ReplayCancel ==
    /\ rp.pc # "done"
    /\ ~rp.cancelled
    /\ rp' = [rp EXCEPT !.cancelled = TRUE]
    /\ UNCHANGED replayFrame

ReplayNext ==
    \/ ReplayStart \/ ReplayEmit \/ ReplayRead \/ ReplayReadEsc \/ ReplayReadCSI
    \/ ReplaySelect \/ ReplayDone \/ ReplayCancel

SpecReplay == ReplayInit /\ [][ReplayNext]_vars

\* the stream opts.Mode names, as ParseStreamMode reads it
SelectedStream(rec, mode) ==
    IF ParseStreamMode(IF mode = "" THEN StreamOutput ELSE mode).mode = StreamInput
    THEN rec.Input ELSE rec.Output

\* the records were emitted in log order: the k-th emission is record k
InLogOrder(stream(_, _)) ==
    /\ Len(rp.out) <= Len(rp.records)
    /\ \A k \in 1..Len(rp.out) : rp.out[k].data = stream(rp.records[k], rp.mode)

\* the first record was emitted before any step byte was read, and each
\* later one right after a CR or LF read since the record before it
SteppedByReturn ==
    \A k \in 1..Len(rp.out) :
        IF k = 1 THEN rp.out[k].consumed = 0
        ELSE rp.out[k].consumed > rp.out[k - 1].consumed /\ rp.out[k].last \in {10, 13}

\* no record was emitted after end of file, and a call that met end of file
\* and no Ctrl-C, with a context that was not cancelled, returned nil
StopsAtEOF ==
    /\ \A k \in 1..Len(rp.out) : ~rp.out[k].eof
    /\ (rp.pc = "done" /\ rp.eof /\ ~rp.ctrlc /\ ~rp.cancelled) => rp.ret = "nil"

\* C40: ReplayWrites emits the selected stream of the records in log order,
\* the first record without waiting and each later one only after a CR or LF
\* was read since the one before; after end of file it returns nil, after a
\* Ctrl-C byte or sequence the interrupted error, and in both cases it emits
\* no further record
ReplayStepping ==
    /\ InLogOrder(SelectedStream)
    /\ SteppedByReturn
    /\ StopsAtEOF
    /\ \A k \in 1..Len(rp.out) : ~rp.out[k].ctrlc
    /\ (rp.pc = "done" /\ rp.ctrlc) => rp.ret = "interrupted"

\* what the code keeps for C40: the stream emitRecord picks, and the Ctrl-C
\* bytes and sequences that waitForNextStep itself recognises
ReplaySteppingAsCoded ==
    /\ InLogOrder(emitRecord)
    /\ SteppedByReturn
    /\ StopsAtEOF
    /\ \A k \in 1..Len(rp.out) : rp.out[k].last # ctrlCByte
    /\ (rp.pc = "done" /\ rp.werr = "interrupted") => rp.ret = "interrupted"

\* a Ctrl-C byte that followed ESC was read and the next record was emitted
ReplaySteppingEscapedWitness ==
    /\ rp.pc = "done"
    /\ rp.ctrlc
    /\ rp.ret = "nil"
    /\ ~rp.cancelled
    /\ Len(rp.out) = 2

\* all three records were replayed in input mode, one per Return
ReplaySteppingAllWitness ==
    /\ rp.pc = "done"
    /\ rp.ret = "nil"
    /\ rp.mode = StreamInput
    /\ Len(rp.out) = 3
    /\ rp.consumed = 2

\* a Ctrl-C key sequence ended the replay after the second record
ReplaySteppingSequenceWitness ==
    /\ rp.pc = "done"
    /\ rp.ret = "interrupted"
    /\ ~rp.cancelled
    /\ rp.consumed = 1 + Len(xtermCtrlC)
    /\ Len(rp.out) = 2

====
